---- MODULE Spec2Model ----
(***************************************************************************)
(* A model of btrfs-progs-ng's logical-volume mapping engine               *)
(* (lib/btrfs/btrfsvol: LogicalVolume, chunkMapping, devextMapping), of    *)
(* its pinning LRU cache (lib/containers: lruCache), of the rebuilt trees  *)
(* of rebuild-nodes (btrees: RebuiltTree), of the tree cache, the index,   *)
(* the searches and the owner check of btrfsutil's OldRebuiltForrest, and  *)
(* of the loop detection of btrfsutil's RebuiltForrest.                    *)
(***************************************************************************)
EXTENDS Integers, Sequences, FiniteSets, TLC

(***************************************************************************)
(* Bounds of the model.                                                    *)
(***************************************************************************)
MaxDev == 2
MaxAddr == 1
MaxSize == 2
MaxCalls == 3
MaxRaceCalls == 2
CacheCap == 2
NumThreads == 3
NumKeys == 3
MaxHeld == 2
MaxNodes == 3
MaxTrees == 3
MaxGen == 3
MaxLevel == 2
MaxAddRoots == 2
MaxWalks == 2
MaxDryRunCalls == 2
MaxReadCalls == 2
MaxKey == 3
MaxBadNodes == 2
MaxOff == 3
MaxRun == 2
MaxWantCalls == 2

DeviceIDs == 1..MaxDev
Addrs == 0..MaxAddr
Sizes == 1..MaxSize

(***************************************************************************)
(* containers.Optional[BlockGroupFlags]: NoFlags is the absent value; the  *)
(* present values are a block-group type with or without a RAID-class bit. *)
(***************************************************************************)
NoFlags == "none"
FlagVals == {"DATA", "DATA|RAID1"}
OptFlags == {NoFlags} \cup FlagVals

\* flags.Val & BLOCK_GROUP_RAID_MASK != 0
HasRaidBits(f) == f = "DATA|RAID1"

\* util.Min and util.Max folded over the values a loop visits
SetMin(S) == CHOOSE x \in S : \A y \in S : x <= y
SetMax(S) == CHOOSE x \in S : \A y \in S : x >= y

(***************************************************************************)
(* The public Mapping record, the unit of AddMapping.                      *)
(***************************************************************************)
Mappings ==
    [LAddr : Addrs, Dev : DeviceIDs, PAddr : Addrs, Size : Sizes,
     SizeLocked : BOOLEAN, Flags : OptFlags]

VARIABLES
    id2pv,              \* set of registered device ids
    logical2physical,   \* set of chunkMapping records (ordered by LAddr)
    physical2logical,   \* [id2pv -> set of devextMapping records]
    paranoid,           \* whether PARANOID is set in the process environment
    lastResult,         \* what the last call returned
    allOK,              \* no AddMapping so far has returned an error
    ncalls,             \* number of AddMapping calls made so far
    rewrite,            \* the tree rewrite of the AddMapping in flight, if any
    observed            \* what the last concurrent Resolve returned

lvVars == <<id2pv, logical2physical, physical2logical, paranoid, lastResult, allOK,
           ncalls, rewrite, observed>>

\* The lruCache and the goroutines that call it.
VARIABLES
    mu,                 \* c.mu is locked
    entries,            \* the cap LinkedListEntry[lruEntry]s: key, refs, del
    unused,             \* c.unused, oldest first
    evictable,          \* c.evictable, oldest first
    byName,             \* c.byName: key -> entry, NoEntry when absent
    waiters,            \* c.waiters: the goroutines blocked in waitForAvail, oldest first
    avail,              \* goroutines whose waitForAvail channel has been closed
    deleted,            \* goroutines whose entry.del channel has been closed
    pc,                 \* where each goroutine is, and the key of its call
    held                \* the handles each goroutine has acquired and not released

cacheVars == <<mu, entries, unused, evictable, byName, waiters, avail, deleted, pc, held>>

\* A RebuiltTree of the rebuilt forrest, over the node graph of one scan.
VARIABLES
    graph,              \* tree.forrest.graph: Nodes and Edges
    rebuiltTree,        \* tree.ID
    Roots,              \* tree.Roots
    Leafs,              \* tree.Leafs
    incItems,           \* tree.forrest.incItems[tree.ID], the index behind Items
    allItems,           \* tree.forrest.allItems[tree.ID], the index behind PotentialItems
    nAddRoot,           \* number of AddRoot calls made so far
    cbAddedItem,        \* per item key, how often forrest.cbAddedItem was called with it
    ltrGot              \* what the last LeafToRoots call returned

treeVars == <<graph, rebuiltTree, Roots, Leafs, incItems, allItems, nAddRoot,
             cbAddedItem, ltrGot>>

\* The OldRebuiltForrest and the goroutines that ask it for trees.
VARIABLES
    rootTreeMu,         \* the goroutine holding bt.rootTreeMu, or NoThread
    treesMu,            \* the goroutine holding bt.treesMu, or NoThread
    trees,              \* bt.rootTree and bt.trees: id -> cached oldRebuiltTree
    walks,              \* per tree id, how many times rawTreeWalk has run
    brokenTrees,        \* the ids whose root the filesystem cannot give
    ortPc,              \* where each goroutine is in RebuiltTree, and its treeID
    ortGot              \* what each goroutine's last RebuiltTree call returned

ortVars == <<rootTreeMu, treesMu, trees, walks, brokenTrees, ortPc, ortGot>>

\* A reader of the logical volume.
VARIABLES
    readGot             \* the last ReadAt: its arguments, the devices' bytes, its result

readVars == <<readGot>>

\* One tree of the OldRebuiltForrest: its index and the last search of it.
VARIABLES
    idxAt,              \* "none", "walk" (in rawTreeWalk) or "ready" (cached)
    idxRootErr,         \* cacheEntry.RootErr is set
    idxItems,           \* cacheEntry.Items: the keys indexed
    idxErrors,          \* cacheEntry.Errors: the oldRebuiltTreeErrors recorded
    searchGot           \* the last TreeSearchAll: its searcher and what it returned

idxVars == <<idxAt, idxRootErr, idxItems, idxErrors, searchGot>>

\* Callers of TreeCheckOwner, and a RebuiltForrest with its callbacks.
VARIABLES
    checkGot,           \* the last TreeCheckOwner: the filesystem, its arguments, its result
    rfRoots,            \* the root items the forrest's LookupRoot callback gives
    rfLax,              \* RebuiltForrest.laxAncestors
    rfTrees,            \* RebuiltForrest.trees: id -> *RebuiltTree
    rfGot               \* what the last RebuiltForrest.RebuiltTree call returned

forrestVars == <<checkGot, rfRoots, rfLax, rfTrees, rfGot>>

\* One TreeCheckOwner call, iteration by iteration of its loop.
VARIABLES
    checkTrees,         \* bt.trees as far as indexed: id -> ParentUUID, ParentGen, RootErr
    checkItems,         \* the UUID tree's items as far as looked up: uuid -> item
    checkPc             \* where the call is: its arguments, the loop's tree and uuidTree

loopVars == <<checkTrees, checkItems, checkPc>>

\* One treeWalk or treeSubrange over the index of a tree.
VARIABLES
    walkIndex,          \* tree.Items: key -> LAddr of the node holding the item
    walkPc,             \* where the walk is: its node, the items left and handled
    nodePins,           \* the nodes AcquireNode has handed out and ReleaseNode not got back
    ctxDone,            \* ctx.Err() != nil
    forrestCtxDone      \* tree.forrest.ctx.Err() != nil

walkVars == <<walkIndex, walkPc, nodePins, ctxDone, forrestCtxDone>>

\* The rebuilt tree under a context that can be cancelled.
VARIABLES
    leafsCache,         \* tree.forrest.leafs: what leafToRoots has memoized for the tree
    ctxCancelled        \* the ctx given to AddRoot has been cancelled

cancelVars == <<leafsCache, ctxCancelled>>

\* The rebuilt tree with AddRoot in one goroutine and readers in others.
VARIABLES
    treeMu,             \* tree.mu is locked
    addRootPc,          \* where the AddRoot call is: its root, the leaves still to insert
    itemsPc             \* where the Items call is: the leafs it read

tmuVars == <<treeMu, addRootPc, itemsPc>>

\* The rebuilder's want callbacks over one rebuilt tree.
VARIABLES
    wantIndex,          \* PotentialItems: key -> (leaf, size of the item's run)
    wantLeafRoots,      \* leafToRoots of the tree: leaf -> roots
    wantTreeRoots,      \* tree.Roots
    augmentQueue,       \* the wantAugment calls made: (want, choices)
    retryQueue,         \* the tree ids given to enqueueRetry
    wantCalls,          \* the callbacks made so far
    wantPanic           \* a callback panicked

wantVars == <<wantIndex, wantLeafRoots, wantTreeRoots, augmentQueue, retryQueue, wantCalls,
              wantPanic>>

vars == <<lvVars, cacheVars, treeVars, ortVars, readVars, idxVars, forrestVars, loopVars,
          walkVars, cancelVars, tmuVars, wantVars>>

\* What a step of one component leaves alone.
lvFrame == <<cacheVars, treeVars, ortVars, readVars, idxVars, forrestVars, loopVars, walkVars,
    cancelVars, tmuVars, wantVars>>
cacheFrame == <<lvVars, treeVars, ortVars, readVars, idxVars, forrestVars, loopVars, walkVars,
    cancelVars, tmuVars, wantVars>>
treeFrame == <<lvVars, cacheVars, ortVars, readVars, idxVars, forrestVars, loopVars, walkVars,
    cancelVars, tmuVars, wantVars>>
ortFrame == <<lvVars, cacheVars, treeVars, readVars, idxVars, forrestVars, loopVars, walkVars,
    cancelVars, tmuVars, wantVars>>
idxFrame == <<lvVars, cacheVars, treeVars, ortVars, readVars, forrestVars, loopVars, walkVars,
    cancelVars, tmuVars, wantVars>>
forrestFrame == <<lvVars, cacheVars, treeVars, ortVars, readVars, idxVars, loopVars, walkVars,
    cancelVars, tmuVars, wantVars>>
readFrame == <<lvVars, cacheVars, treeVars, ortVars, idxVars, forrestVars, loopVars, walkVars,
    cancelVars, tmuVars, wantVars>>
loopFrame == <<lvVars, cacheVars, treeVars, ortVars, readVars, idxVars, forrestVars, walkVars,
    cancelVars, tmuVars, wantVars>>
walkFrame == <<lvVars, cacheVars, treeVars, ortVars, readVars, idxVars, forrestVars, loopVars,
    cancelVars, tmuVars, wantVars>>
cancelFrame == <<lvVars, cacheVars, ortVars, readVars, idxVars, forrestVars, loopVars, walkVars,
    tmuVars, wantVars>>
wantFrame == <<lvVars, cacheVars, treeVars, ortVars, readVars, idxVars, forrestVars, loopVars,
    walkVars, cancelVars, tmuVars>>
tmuFrame == <<lvVars, cacheVars, ortVars, readVars, idxVars, forrestVars, loopVars, walkVars,
    cancelVars, wantVars>>

(***************************************************************************)
(* chunkMapping                                                            *)
(***************************************************************************)
\* A variant that takes a one-byte overlap for no overlap.
chunkCmpRange_OffByOne(a, b) ==
    IF a.LAddr + a.Size - 1 <= b.LAddr THEN -1
    ELSE IF b.LAddr + b.Size - 1 <= a.LAddr THEN 1
    ELSE 0

\* A variant that takes two ranges that touch for overlapping.
chunkCmpRange_Touching(a, b) ==
    IF a.LAddr + a.Size < b.LAddr THEN -1
    ELSE IF b.LAddr + b.Size < a.LAddr THEN 1
    ELSE 0

\* -1: a wholly left of b; 1: a wholly right of b; 0: some overlap
chunkCmpRange(a, b) ==
    IF a.LAddr + a.Size <= b.LAddr THEN -1
    ELSE IF b.LAddr + b.Size <= a.LAddr THEN 1
    ELSE 0

\* The elements of a set of chunks as a sequence in ascending LAddr order.
RECURSIVE ChunksAscending(_)
ChunksAscending(S) ==
    IF S = {} THEN <<>>
    ELSE LET m == CHOOSE x \in S : \A y \in S : x.LAddr <= y.LAddr
         IN  <<m>> \o ChunksAscending(S \ {m})

\* A variant of the size-lock test that looks at the new mapping only.
sizeLockedConflict_NewOnly(members, size) ==
    members[1].SizeLocked /\ members[1].Size # size

\* union's loop over the members: one of them has a locked size that is not
\* the size of the union.
sizeLockedConflict(members, size) ==
    \E i \in DOMAIN members : members[i].SizeLocked /\ members[i].Size # size

\* A variant that takes a member's stripe over without moving it.
stripeInUnion_NoOffset(stripe, offsetWithinRet) == stripe

\* A member's stripe, moved back to the start of the union.
stripeInUnion(stripe, offsetWithinRet) ==
    [Dev |-> stripe.Dev, Addr |-> stripe.Addr - offsetWithinRet]

\* a.union(rest...): [err, ret]
chunkUnion(a, rest) ==
    LET chunks == <<a>> \o rest
        idx == DOMAIN chunks
        beg == SetMin({chunks[i].LAddr : i \in idx})
        end == SetMax({chunks[i].LAddr + chunks[i].Size : i \in idx})
        size == end - beg
        locked == \E i \in idx : chunks[i].SizeLocked
        paddrs == UNION {{stripeInUnion(s, chunks[i].LAddr - beg) :
                              s \in chunks[i].PAddrs} : i \in idx}
        flagged == {i \in idx : chunks[i].Flags # NoFlags}
        flags == IF flagged = {} THEN NoFlags ELSE chunks[SetMin(flagged)].Flags
        ret == [LAddr |-> beg, PAddrs |-> paddrs, Size |-> size,
                SizeLocked |-> locked, Flags |-> flags]
    IN  IF \E i \in DOMAIN rest : chunkCmpRange(a, rest[i]) # 0
        THEN [err |-> "NoOverlap", ret |-> a]
        ELSE IF sizeLockedConflict(chunks, size)
        THEN [err |-> "SizeLockedConflict", ret |-> a]
        ELSE IF \E i \in flagged : chunks[i].Flags # flags
        THEN [err |-> "FlagsConflict", ret |-> ret]
        ELSE [err |-> "", ret |-> ret]

(***************************************************************************)
(* devextMapping                                                           *)
(***************************************************************************)
\* A variant that takes a one-byte overlap for no overlap.
devextCmpRange_OffByOne(a, b) ==
    IF a.PAddr + a.Size - 1 <= b.PAddr THEN -1
    ELSE IF b.PAddr + b.Size - 1 <= a.PAddr THEN 1
    ELSE 0

devextCmpRange(a, b) ==
    IF a.PAddr + a.Size <= b.PAddr THEN -1
    ELSE IF b.PAddr + b.Size <= a.PAddr THEN 1
    ELSE 0

RECURSIVE DevextsAscending(_)
DevextsAscending(S) ==
    IF S = {} THEN <<>>
    ELSE LET m == CHOOSE x \in S : \A y \in S : x.PAddr <= y.PAddr
         IN  <<m>> \o DevextsAscending(S \ {m})

\* The .LAddr loop of devextMapping.union: `first` is never cleared, so every
\* iteration assigns ret.LAddr and the disagreement branch is never taken.
devextUnionLAddr(exts, beg) ==
    LET e == exts[Len(exts)]
    IN  [err |-> "", laddr |-> e.LAddr - (e.PAddr - beg)]

\* a.union(rest...): [err, ret]
devextUnion(a, rest) ==
    LET exts == <<a>> \o rest
        idx == DOMAIN exts
        beg == SetMin({exts[i].PAddr : i \in idx})
        end == SetMax({exts[i].PAddr + exts[i].Size : i \in idx})
        size == end - beg
        locked == \E i \in idx : exts[i].SizeLocked
        la == devextUnionLAddr(exts, beg)
        flagged == {i \in idx : exts[i].Flags # NoFlags}
        flags == IF flagged = {} THEN NoFlags ELSE exts[SetMin(flagged)].Flags
        ret == [PAddr |-> beg, LAddr |-> la.laddr, Size |-> size,
                SizeLocked |-> locked, Flags |-> flags]
    IN  IF \E i \in DOMAIN rest : devextCmpRange(a, rest[i]) # 0
        THEN [err |-> "NoOverlap", ret |-> a]
        ELSE IF sizeLockedConflict(exts, size)
        THEN [err |-> "SizeLockedConflict", ret |-> a]
        ELSE IF la.err # ""
        THEN [err |-> la.err, ret |-> ret]
        ELSE IF \E i \in flagged : exts[i].Flags # flags
        THEN [err |-> "FlagsConflict", ret |-> ret]
        ELSE [err |-> "", ret |-> ret]

(***************************************************************************)
(* containers.RBTree, as the engine uses it: a tree is the set of its      *)
(* values; Subrange visits the values a range comparator maps to 0, in     *)
(* ascending order; Insert is keyed by the value's own order (LAddr for a  *)
(* chunk, PAddr for a dev-extent) and rejects a key already present.       *)
(***************************************************************************)
chunkSubrange(tree, a) ==
    ChunksAscending({c \in tree : chunkCmpRange(a, c) = 0})

devextSubrange(tree, a) ==
    DevextsAscending({e \in tree : devextCmpRange(a, e) = 0})

chunkInsert(tree, v) ==
    IF \E c \in tree : c.LAddr = v.LAddr THEN tree ELSE tree \cup {v}

devextInsert(tree, v) ==
    IF \E e \in tree : e.PAddr = v.PAddr THEN tree ELSE tree \cup {v}

SeqToSet(s) == {s[i] : i \in DOMAIN s}

(***************************************************************************)
(* LogicalVolume.fsck: rebuild the dev-extent trees from the chunk tree,   *)
(* one dev-extent per stripe, and compare with the engine's.               *)
(***************************************************************************)
fsckStripeDevs(l2p) == {s.Dev : s \in UNION {c.PAddrs : c \in l2p}}

\* The tree fsck builds for device d: chunks are visited in ascending LAddr
\* order, so of several stripes at one PAddr the lowest chunk's is inserted.
fsckRebuild(l2p, d) ==
    LET addrs == {s.Addr : s \in {t \in UNION {c.PAddrs : c \in l2p} : t.Dev = d}}
        first(p) == CHOOSE c \in l2p :
                        /\ [Dev |-> d, Addr |-> p] \in c.PAddrs
                        /\ \A c2 \in l2p : [Dev |-> d, Addr |-> p] \in c2.PAddrs
                                              => c.LAddr <= c2.LAddr
    IN  {[PAddr |-> p, LAddr |-> first(p).LAddr, Size |-> first(p).Size,
          SizeLocked |-> FALSE, Flags |-> first(p).Flags] : p \in addrs}

fsck(pvs, l2p, p2l) ==
    IF \E d \in fsckStripeDevs(l2p) : d \notin pvs THEN "NoSuchDevice"
    ELSE IF Cardinality(DOMAIN p2l) # Cardinality(fsckStripeDevs(l2p)) THEN "FsckSkew"
    ELSE IF \E d \in DOMAIN p2l : p2l[d] # fsckRebuild(l2p, d) THEN "FsckSkew"
    ELSE ""

\* A variant that admits more stripes than dev-extents whatever the flags.
flagsAdmitStripes_Always(flags) == TRUE

\* Whether the flags of the union admit more stripes than dev-extents: they
\* are absent, or they have a DUP or RAID bit.
flagsAdmitStripes(flags) == ~(flags # NoFlags /\ ~HasRaidBits(flags))

(***************************************************************************)
(* LogicalVolume.addMapping, up to the point where it either returns or    *)
(* starts to rewrite the trees: what it returns, and what it would write.  *)
(***************************************************************************)
addMappingCrossCheck(newChunk, newExt, numPhysicalOverlaps, numOverlappingStripes) ==
    IF newChunk.Flags # newExt.Flags THEN "Panic"
    ELSE IF numPhysicalOverlaps = numOverlappingStripes THEN ""
    ELSE IF numPhysicalOverlaps < numOverlappingStripes
    THEN IF flagsAdmitStripes(newChunk.Flags) THEN "" ELSE "StripesNotAllowed"
    ELSE "Panic"

\* A variant that runs the replication cross-check only after the rewrite.
addMappingWrites_LateCheck(err, dryRun, same) ==
    err \in {"", "StripesNotAllowed"} /\ ~dryRun /\ ~same

\* Whether addMapping gets to rewrite the trees: it has returned no error, it
\* is not a dry run, and the unions are not what the trees already hold.
addMappingWrites(err, dryRun, same) == err = "" /\ ~dryRun /\ ~same

addMappingPlan(pvs, l2p, p2l, m, dryRun) ==
    LET stripe == [Dev |-> m.Dev, Addr |-> m.PAddr]
        newChunk0 == [LAddr |-> m.LAddr, PAddrs |-> {stripe}, Size |-> m.Size,
                      SizeLocked |-> m.SizeLocked, Flags |-> m.Flags]
        logicalOverlaps == chunkSubrange(l2p, newChunk0)
        numOverlappingStripes ==
            Cardinality(UNION {{<<c, s>> : s \in c.PAddrs} : c \in SeqToSet(logicalOverlaps)})
        cu == chunkUnion(newChunk0, logicalOverlaps)
        newExt0 == [PAddr |-> m.PAddr, LAddr |-> m.LAddr, Size |-> m.Size,
                    SizeLocked |-> m.SizeLocked, Flags |-> m.Flags]
        physicalOverlaps == devextSubrange(p2l[m.Dev], newExt0)
        eu == devextUnion(newExt0, physicalOverlaps)
        cross == addMappingCrossCheck(cu.ret, eu.ret, Len(physicalOverlaps),
                                      numOverlappingStripes)
        same == /\ Len(logicalOverlaps) = 1 /\ cu.ret = logicalOverlaps[1]
                /\ Len(physicalOverlaps) = 1 /\ eu.ret = physicalOverlaps[1]
        plan(err) ==
            [err |-> err, write |-> addMappingWrites(err, dryRun, same),
             newChunk |-> cu.ret, newExt |-> eu.ret,
             logicalOverlaps |-> logicalOverlaps, physicalOverlaps |-> physicalOverlaps]
    IN  IF m.Dev \notin pvs
        THEN [err |-> "NoSuchDevice", write |-> FALSE, newChunk |-> newChunk0,
              newExt |-> newExt0, logicalOverlaps |-> <<>>, physicalOverlaps |-> <<>>]
        ELSE IF cu.err # "" THEN plan(cu.err)
        ELSE IF eu.err # "" THEN plan(eu.err)
        ELSE IF cross # "" THEN plan(cross)
        ELSE plan("")

\* The chunk tree after the rewrite: every overlap deleted, the union inserted.
addMappingChunks(l2p, plan) ==
    chunkInsert(l2p \ SeqToSet(plan.logicalOverlaps), plan.newChunk)

\* The dev-extent tree of the mapping's device after the rewrite.
addMappingDevexts(tree, plan) ==
    devextInsert(tree \ SeqToSet(plan.physicalOverlaps), plan.newExt)

(***************************************************************************)
(* LogicalVolume.Resolve: the stripes of the chunk holding laddr, each     *)
(* moved by laddr's offset within the chunk, and the length to the chunk's *)
(* end; no stripes and 0 when no chunk holds laddr.                        *)
(***************************************************************************)
Resolve(l2p, laddr) ==
    LET probe == [LAddr |-> laddr, Size |-> 1]
        found == {c \in l2p : chunkCmpRange(probe, c) = 0}
    IN  IF found = {} THEN [paddrs |-> {}, maxlen |-> 0]
        ELSE LET chunk == CHOOSE c \in found : TRUE
                 offsetWithinChunk == laddr - chunk.LAddr
             IN  [paddrs |-> {[Dev |-> s.Dev, Addr |-> s.Addr + offsetWithinChunk] :
                                 s \in chunk.PAddrs},
                  maxlen |-> chunk.Size - offsetWithinChunk]

\* LogicalVolume.UnResolve: the logical address the dev-extent holding paddr
\* gives it; -1 when no dev-extent holds it.
UnResolve(p2l, paddr) ==
    LET probe == [PAddr |-> paddr.Addr, Size |-> 1]
        found == IF paddr.Dev \in DOMAIN p2l
                 THEN {e \in p2l[paddr.Dev] : devextCmpRange(probe, e) = 0}
                 ELSE {}
    IN  IF found = {} THEN -1
        ELSE LET ext == CHOOSE e \in found : TRUE
                 offsetWithinExt == paddr.Addr - ext.PAddr
             IN  ext.LAddr + offsetWithinExt

(***************************************************************************)
(* LogicalVolume.ReadAt.  A device is DevSize bytes; a read that leaves    *)
(* the device fails.  Go ranges over the set of stripes in any order, so   *)
(* maybeShortReadAt has one outcome for each order.                        *)
(***************************************************************************)
Bytes == {0, 1}
DevSize == MaxAddr + MaxSize
DevContents == [DeviceIDs -> [0..(DevSize - 1) -> Bytes]]
ReadLens == 1..MaxSize
NotRead == [len |-> 0]

\* PhysicalVolume.ReadAt(buf, addr) with len(buf) = n
devReadAt(data, dev, addr, n) ==
    IF addr < 0 \/ addr + n > DevSize THEN [err |-> "ReadError", bytes |-> <<>>]
    ELSE [err |-> "", bytes |-> [i \in 1..n |-> data[dev][addr + i - 1]]]

\* The orders in which a range loop may visit the members of a set.
Orders(S) ==
    {order \in [1..Cardinality(S) -> S] :
        \A i, j \in 1..Cardinality(S) : i # j => order[i] # order[j]}

\* A variant that takes any two buffers for equal.
bytesEqual_Always(dat, buf) == TRUE

\* bytes.Equal(dat, buf)
bytesEqual(dat, buf) == dat = buf

\* maybeShortReadAt's loop over paddrs from the i-th stripe of order on, n
\* bytes each; dat is what the first stripe gave.
RECURSIVE readStripes(_, _, _, _, _, _)
readStripes(pvs, data, order, i, n, dat) ==
    IF i > Len(order) THEN [n |-> n, err |-> "", bytes |-> dat]
    ELSE IF order[i].Dev \notin pvs THEN [n |-> 0, err |-> "NoSuchDevice", bytes |-> <<>>]
    ELSE LET buf == devReadAt(data, order[i].Dev, order[i].Addr, n)
         IN  IF buf.err # "" THEN [n |-> 0, err |-> "ReadError", bytes |-> <<>>]
             ELSE IF i > 1 /\ ~bytesEqual(dat, buf.bytes)
             THEN [n |-> 0, err |-> "InconsistentStripes", bytes |-> <<>>]
             ELSE readStripes(pvs, data, order, i + 1, n, IF i = 1 THEN buf.bytes ELSE dat)

\* The outcomes of maybeShortReadAt(dat, laddr) with len(dat) = n.
maybeShortReadAt(l2p, pvs, data, n, laddr) ==
    LET res == Resolve(l2p, laddr)
        len == IF n > res.maxlen THEN res.maxlen ELSE n
    IN  IF res.paddrs = {} THEN {[n |-> 0, err |-> "CouldNotMap", bytes |-> <<>>]}
        ELSE {readStripes(pvs, data, order, 1, len, <<>>) : order \in Orders(res.paddrs)}

\* The outcomes of ReadAt's loop once done bytes, bytes, have been read.
RECURSIVE readAtFrom(_, _, _, _, _, _, _)
readAtFrom(l2p, pvs, data, n, laddr, done, bytes) ==
    IF done >= n THEN {[n |-> done, err |-> "", bytes |-> bytes]}
    ELSE UNION {IF r.err # ""
                THEN {[n |-> done + r.n, err |-> r.err, bytes |-> bytes]}
                ELSE readAtFrom(l2p, pvs, data, n, laddr, done + r.n, bytes \o r.bytes) :
                   r \in maybeShortReadAt(l2p, pvs, data, n - done, laddr + done)}

(***************************************************************************)
(* lruCache: NewLRUCache(CacheCap, src), called by NumThreads goroutines.  *)
(* Every field is read and written with c.mu held, so the code between a   *)
(* Lock and the next Unlock or channel receive is one step.  A closed      *)
(* channel is the set of goroutines it has released.                       *)
(***************************************************************************)
Threads == 1..NumThreads
Keys == 1..NumKeys
EntryIds == 1..CacheCap
NoEntry == 0
NoKey == 0

\* containers.LinkedList: Store adds the newest entry, Oldest is the entry
\* stored longest ago, Delete unlinks an entry.
ListStore(list, x) == Append(list, x)
ListOldest(list) == Head(list)
ListDelete(list, x) == SelectSeq(list, LAMBDA y : y # x)
ListHas(list, x) == \E i \in DOMAIN list : list[i] = x

\* Handles are kept ordered by key, then entry: which of its handles a
\* goroutine got first makes no difference to the cache.
HandleBefore(a, b) == a.key < b.key \/ (a.key = b.key /\ a.entry <= b.entry)

HeldAdd(hs, h) ==
    LET n == Cardinality({i \in DOMAIN hs : HandleBefore(hs[i], h)})
    IN  [j \in 1..(Len(hs) + 1) |->
            IF j <= n THEN hs[j] ELSE IF j = n + 1 THEN h ELSE hs[j - 1]]

HeldDrop(hs, i) ==
    [j \in 1..(Len(hs) - 1) |-> IF j < i THEN hs[j] ELSE hs[j + 1]]

InitCache ==
    /\ mu = FALSE
    /\ entries = [e \in EntryIds |-> [key |-> NoKey, refs |-> 0, del |-> {}]]
    /\ unused = [i \in 1..CacheCap |-> i]
    /\ evictable = <<>>
    /\ byName = [k \in Keys |-> NoEntry]
    /\ waiters = <<>>
    /\ avail = {}
    /\ deleted = {}
    /\ pc = [t \in Threads |-> [at |-> "idle", key |-> NoKey]]
    /\ held = [t \in Threads |-> <<>>]

Panicked == \E t \in Threads : pc[t].at = "panicked"

\* A variant of waitForAvail's test that only counts the unused entries.
Available_UnusedOnly == unused # <<>>

\* waitForAvail's test: there is an lruEntry to use or to evict.
Available == unused # <<>> \/ evictable # <<>>

\* A variant of unlockAndNotifyAvail that wakes the newest waiter.
notifyAvailWaiter_Newest(list) == list[Len(list)]

\* unlockAndNotifyAvail's choice of the waiter to wake.
notifyAvailWaiter(list) == ListOldest(list)

\* lruReplace after waitForAvail, and the rest of Acquire's miss branch:
\* take the oldest unused entry, else evict the oldest evictable one; load
\* key k into it with one reference; return it from Acquire to goroutine t.
AcquireStore(t, k) ==
    LET fromUnused == unused # <<>>
        e == IF fromUnused THEN ListOldest(unused) ELSE ListOldest(evictable)
        evicted == entries[e].key
    IN  /\ unused' = IF fromUnused THEN ListDelete(unused, e) ELSE unused
        /\ evictable' = IF fromUnused THEN evictable ELSE ListDelete(evictable, e)
        /\ entries' = [entries EXCEPT ![e].key = k, ![e].refs = 1]
        /\ byName' = [x \in Keys |->
                         IF x = k THEN e
                         ELSE IF ~fromUnused /\ x = evicted THEN NoEntry
                         ELSE byName[x]]
        /\ held' = [held EXCEPT ![t] = HeldAdd(held[t], [key |-> k, entry |-> e])]

\* Acquire(k), up to its return or to its wait in waitForAvail.
AcquireCall(t, k) ==
    /\ ~Panicked
    /\ pc[t].at = "idle"
    /\ Len(held[t]) < MaxHeld
    /\ ~mu
    /\ IF byName[k] # NoEntry
       THEN LET e == byName[k]
            IN  /\ evictable' = IF entries[e].refs = 0 THEN ListDelete(evictable, e)
                                ELSE evictable
                /\ entries' = [entries EXCEPT ![e].refs = entries[e].refs + 1]
                /\ held' = [held EXCEPT ![t] = HeldAdd(held[t], [key |-> k, entry |-> e])]
                /\ UNCHANGED <<mu, unused, byName, waiters, pc>>
       ELSE IF Available
       THEN /\ AcquireStore(t, k)
            /\ UNCHANGED <<mu, waiters, pc>>
       ELSE /\ waiters' = ListStore(waiters, t)
            /\ pc' = [pc EXCEPT ![t] = [at |-> "waitForAvail", key |-> k]]
            /\ UNCHANGED <<mu, entries, unused, evictable, byName, held>>
    /\ UNCHANGED <<avail, deleted, cacheFrame>>

\* Acquire(k) from `<-ch` in waitForAvail on: the lock comes with the wake-up.
AcquireResume(t) ==
    /\ ~Panicked
    /\ pc[t].at = "waitForAvail"
    /\ t \in avail
    /\ avail' = avail \ {t}
    /\ IF Available
       THEN /\ AcquireStore(t, pc[t].key)
            /\ pc' = [pc EXCEPT ![t] = [at |-> "idle", key |-> NoKey]]
            /\ mu' = FALSE
       ELSE /\ pc' = [pc EXCEPT ![t].at = "panicked"]
            /\ UNCHANGED <<mu, entries, unused, evictable, byName, held>>
    /\ UNCHANGED <<waiters, deleted, cacheFrame>>

\* Delete(k), up to its return or to its wait in unlockAndWaitForDel.
DeleteCall(t, k) ==
    /\ ~Panicked
    /\ pc[t].at = "idle"
    /\ ~mu
    /\ LET e == byName[k]
       IN  IF e = NoEntry
           THEN \* returns with c.mu still locked
                /\ mu' = TRUE
                /\ UNCHANGED <<entries, unused, evictable, byName, pc>>
           ELSE IF entries[e].refs > 0
           THEN /\ entries' = [entries EXCEPT ![e].del = entries[e].del \cup {t}]
                /\ pc' = [pc EXCEPT ![t] = [at |-> "waitForDel", key |-> k]]
                /\ UNCHANGED <<mu, unused, evictable, byName>>
           ELSE /\ byName' = [byName EXCEPT ![k] = NoEntry]
                /\ evictable' = ListDelete(evictable, e)
                /\ unused' = ListStore(unused, e)
                /\ UNCHANGED <<mu, entries, pc>>
    /\ UNCHANGED <<waiters, avail, deleted, held, cacheFrame>>

\* Delete(k) from `<-ch` in unlockAndWaitForDel on: it returns.
DeleteResume(t) ==
    /\ ~Panicked
    /\ pc[t].at = "waitForDel"
    /\ t \in deleted
    /\ deleted' = deleted \ {t}
    /\ pc' = [pc EXCEPT ![t] = [at |-> "idle", key |-> NoKey]]
    /\ UNCHANGED <<mu, entries, unused, evictable, byName, waiters, avail, held, cacheFrame>>

\* A variant of Release that takes every release for the last one.
releaseIsLast_Always(refs) == TRUE

\* Release's test after `entry.Value.refs--`: no reference is left.
releaseIsLast(refs) == refs = 0

\* A variant of notifyOfDel that wakes a single Delete.
notifyOfDel_One(del) == IF del = {} THEN {} ELSE {CHOOSE t \in del : TRUE}

\* notifyOfDel: close(entry.del) lets every Delete blocked on the entry go on.
notifyOfDel(del) == del

\* Release(k) by a goroutine that gives up its i-th handle, one for key k.
ReleaseCall(t, i) ==
    /\ ~Panicked
    /\ pc[t].at = "idle"
    /\ i \in DOMAIN held[t]
    /\ ~mu
    /\ LET k == held[t][i].key
           e == byName[k]
           refs == entries[e].refs - 1
       IN  IF e = NoEntry \/ entries[e].refs <= 0
           THEN /\ pc' = [pc EXCEPT ![t] = [at |-> "panicked", key |-> k]]
                /\ mu' = TRUE
                /\ UNCHANGED <<entries, unused, evictable, byName, waiters, avail,
                               deleted, held>>
           ELSE /\ held' = [held EXCEPT ![t] = HeldDrop(held[t], i)]
                /\ IF releaseIsLast(refs)
                   THEN /\ IF entries[e].del # {}
                           THEN /\ byName' = [byName EXCEPT ![k] = NoEntry]
                                /\ unused' = ListStore(unused, e)
                                /\ deleted' = deleted \cup notifyOfDel(entries[e].del)
                                /\ entries' = [entries EXCEPT ![e].refs = refs, ![e].del = {}]
                                /\ UNCHANGED evictable
                           ELSE /\ evictable' = ListStore(evictable, e)
                                /\ entries' = [entries EXCEPT ![e].refs = refs]
                                /\ UNCHANGED <<byName, unused, deleted>>
                        /\ IF waiters = <<>>
                           THEN UNCHANGED <<mu, waiters, avail>>
                           ELSE /\ waiters' = ListDelete(waiters, notifyAvailWaiter(waiters))
                                /\ avail' = avail \cup {notifyAvailWaiter(waiters)}
                                /\ mu' = TRUE
                   ELSE /\ entries' = [entries EXCEPT ![e].refs = refs]
                        /\ UNCHANGED <<mu, unused, evictable, byName, waiters, avail, deleted>>
                /\ UNCHANGED pc
    /\ UNCHANGED cacheFrame

NextCache ==
    \/ \E t \in Threads, k \in Keys : AcquireCall(t, k)
    \/ \E t \in Threads : AcquireResume(t)
    \/ \E t \in Threads, k \in Keys : DeleteCall(t, k)
    \/ \E t \in Threads : DeleteResume(t)
    \/ \E t \in Threads, i \in 1..MaxHeld : ReleaseCall(t, i)

(***************************************************************************)
(* btrees.RebuiltTree: the trees of the forrest form one chain of          *)
(* snapshots, tree t made from tree t-1 at generation ParentGen(t); the    *)
(* graph holds MaxNodes nodes, node n at logical address n.                *)
(***************************************************************************)
NodeAddrs == 1..MaxNodes
TreeIDs == 1..MaxTrees
Generations == 1..MaxGen
Levels == 0..MaxLevel
NoTree == 0

\* RebuiltTree.Parent and RebuiltTree.ParentGen
TreeParent(t) == IF t = 1 THEN NoTree ELSE t - 1
TreeParentGen(t) == t

\* graph.Nodes[n].Items of a leaf: item keys by slot.
NodeItems(n) == IF n = 1 THEN <<1, 2>> ELSE <<2>>

\* The graph's node table: the header fields of every node.
NodeTables == [NodeAddrs -> [Level : Levels, Owner : TreeIDs, Generation : Generations]]

\* The tables taken up: node 1 is a leaf, and levels do not decrease with
\* the address.
NodeTableOK(nodes) ==
    /\ nodes[1].Level = 0
    /\ \A n \in NodeAddrs \ {1} : nodes[n - 1].Level <= nodes[n].Level

\* graph.FinalCheck: a key pointer goes one level down, so there is no loop.
KeyPointers(nodes) ==
    {e \in NodeAddrs \X NodeAddrs : nodes[e[1]].Level = nodes[e[2]].Level + 1}

RECURSIVE isOwnerOK(_, _, _)
isOwnerOK(t, owner, gen) ==
    IF owner = t THEN TRUE
    ELSE IF TreeParent(t) = NoTree \/ gen >= TreeParentGen(t) THEN FALSE
    ELSE isOwnerOK(TreeParent(t), owner, gen)

nodeOwnerOK(t, g, n) == isOwnerOK(t, g.Nodes[n].Owner, g.Nodes[n].Generation)

\* index[node] once indexNode(node) has returned: nil (no roots) for a node
\* that fails isOwnerOK; else the roots of the owner-OK nodes pointing at it,
\* and the node itself when those give none.
RECURSIVE indexNode(_, _, _)
indexNode(t, g, node) ==
    IF ~nodeOwnerOK(t, g, node) THEN {}
    ELSE LET kps == {kp \in g.Edges : kp[2] = node /\ nodeOwnerOK(t, g, kp[1])}
             roots == UNION {indexNode(t, g, kp[1]) : kp \in kps}
         IN  IF roots = {} THEN {node} ELSE roots

\* tree.leafToRoots(): leaf -> roots, for the leafs that have roots.
leafToRoots(t, g) ==
    [leaf \in {n \in NodeAddrs : g.Nodes[n].Level = 0 /\ indexNode(t, g, n) # {}} |->
        indexNode(t, g, leaf)]

\* A variant of AddRoot's loop that does not skip the leaves the tree has.
addRootAdded_NoSkip(t, g, leafs, rootNode) ==
    {leaf \in DOMAIN leafToRoots(t, g) : rootNode \in leafToRoots(t, g)[leaf]}

\* The leaves AddRoot(rootNode)'s loop over leafToRoots does not skip.
addRootAdded(t, g, leafs, rootNode) ==
    {leaf \in DOMAIN leafToRoots(t, g) :
        ~(leaf \in leafs \/ rootNode \notin leafToRoots(t, g)[leaf])}

\* tree.Leafs after AddRoot(rootNode)'s loop.
addRootLeafs(t, g, leafs, rootNode) == leafs \cup addRootAdded(t, g, leafs, rootNode)

\* The item keys of the graph's nodes, and how many items of the leaves in
\* added have key k.
ItemKeys == UNION {{NodeItems(n)[j] : j \in DOMAIN NodeItems(n)} : n \in NodeAddrs}
ItemsWithKey(added, k) ==
    Cardinality(UNION {{<<leaf, j>> : j \in {i \in DOMAIN NodeItems(leaf) :
                                                 NodeItems(leaf)[i] = k}} : leaf \in added})

\* The calls of forrest.cbAddedItem that AddRoot's loop makes, added to cb.
addRootCallbacks(t, g, leafs, rootNode, cb) ==
    [k \in ItemKeys |-> cb[k] + ItemsWithKey(addRootAdded(t, g, leafs, rootNode), k)]

\* No LeafToRoots call made.
NotAsked == [leaf |-> 0]

\* tree.LeafToRoots(leaf) for a leaf: it panics if a root of the leaf is in
\* the tree, and returns nil for the empty set.
LeafToRoots(t, g, roots, leaf) ==
    LET cached == IF leaf \in DOMAIN leafToRoots(t, g) THEN leafToRoots(t, g)[leaf] ELSE {}
    IN  IF g.Nodes[leaf].Level # 0 THEN [leaf |-> leaf, panic |-> TRUE, ret |-> {}]
        ELSE IF cached \cap roots # {} THEN [leaf |-> leaf, panic |-> TRUE, ret |-> {}]
        ELSE [leaf |-> leaf, panic |-> FALSE, ret |-> cached]

RECURSIVE COWDistanceFrom(_, _, _)
COWDistanceFrom(t, parentID, dist) ==
    IF parentID = t THEN [dist |-> dist, ok |-> TRUE]
    ELSE IF TreeParent(t) = NoTree THEN [dist |-> 0, ok |-> FALSE]
    ELSE COWDistanceFrom(TreeParent(t), parentID, dist + 1)

COWDistance(t, parentID) == COWDistanceFrom(t, parentID, 0)

\* A variant of shouldReplace that keeps the older generation.
shouldReplace_OlderGen(t, g, oldNode, newNode) ==
    LET oldDist == COWDistance(t, g.Nodes[oldNode].Owner).dist
        newDist == COWDistance(t, g.Nodes[newNode].Owner).dist
    IN  IF newDist < oldDist THEN "replace"
        ELSE IF newDist > oldDist THEN "retain"
        ELSE IF g.Nodes[newNode].Generation < g.Nodes[oldNode].Generation THEN "replace"
        ELSE IF g.Nodes[newNode].Generation > g.Nodes[oldNode].Generation THEN "retain"
        ELSE "panic"

shouldReplace(t, g, oldNode, newNode) ==
    LET oldDist == COWDistance(t, g.Nodes[oldNode].Owner).dist
        newDist == COWDistance(t, g.Nodes[newNode].Owner).dist
    IN  IF newDist < oldDist THEN "replace"
        ELSE IF newDist > oldDist THEN "retain"
        ELSE IF g.Nodes[newNode].Generation > g.Nodes[oldNode].Generation THEN "replace"
        ELSE IF g.Nodes[newNode].Generation < g.Nodes[oldNode].Generation THEN "retain"
        ELSE "panic"

\* maps.SortedKeys
RECURSIVE SortedKeys(_)
SortedKeys(S) ==
    IF S = {} THEN <<>>
    ELSE <<SetMin(S)>> \o SortedKeys(S \ {SetMin(S)})

\* An itemIndex nothing has been indexed into; panic: shouldReplace panicked.
EmptyIndex == [Leafs |-> {}, Items |-> <<>>, panic |-> FALSE]

IndexStore(index, key, ptr) ==
    [index EXCEPT !.Items = [k \in DOMAIN index.Items \cup {key} |->
                                IF k = key THEN ptr ELSE index.Items[k]]]

\* A variant of the inner loop that keeps the entry it finds.
itemsItem_KeepFirst(t, g, index, leaf, j) ==
    LET itemKey == NodeItems(leaf)[j]
        newPtr == [Node |-> leaf, Idx |-> j - 1]
    IN  IF itemKey \notin DOMAIN index.Items THEN IndexStore(index, itemKey, newPtr)
        ELSE index

\* The body of items()'s inner loop for slot j (counted from 1) of leaf.
itemsItem(t, g, index, leaf, j) ==
    LET itemKey == NodeItems(leaf)[j]
        newPtr == [Node |-> leaf, Idx |-> j - 1]
    IN  IF itemKey \notin DOMAIN index.Items THEN IndexStore(index, itemKey, newPtr)
        ELSE LET r == shouldReplace(t, g, index.Items[itemKey].Node, leaf)
             IN  IF r = "panic" THEN [index EXCEPT !.panic = TRUE]
                 ELSE IF r = "replace" THEN IndexStore(index, itemKey, newPtr)
                 ELSE index

RECURSIVE itemsLeaf(_, _, _, _, _)
itemsLeaf(t, g, index, leaf, j) ==
    IF index.panic \/ j > Len(NodeItems(leaf)) THEN index
    ELSE itemsLeaf(t, g, itemsItem(t, g, index, leaf, j), leaf, j + 1)

\* tree.items(ctx, cache, leafs): the index after the loop over leafs.
RECURSIVE items(_, _, _, _)
items(t, g, index, leafs) ==
    IF index.panic \/ leafs = <<>> THEN index
    ELSE IF Head(leafs) \in index.Leafs THEN items(t, g, index, Tail(leafs))
    ELSE items(t, g,
               itemsLeaf(t, g, [index EXCEPT !.Leafs = index.Leafs \cup {Head(leafs)}],
                         Head(leafs), 1),
               Tail(leafs))

\* What tree.Items(ctx) and tree.PotentialItems(ctx) leave in their caches.
Items(t, g, index, leafs) == items(t, g, index, SortedKeys(leafs))
PotentialItems(t, g, index) == items(t, g, index, SortedKeys(DOMAIN leafToRoots(t, g)))

\* A process that has built no graph and no tree.
NoGraph == [Nodes |-> <<>>, Edges |-> {}]

InitNoTree ==
    /\ graph = NoGraph
    /\ rebuiltTree = NoTree
    /\ Roots = {}
    /\ Leafs = {}
    /\ incItems = EmptyIndex
    /\ allItems = EmptyIndex
    /\ nAddRoot = 0
    /\ cbAddedItem = [k \in ItemKeys |-> 0]
    /\ ltrGot = NotAsked

\* NewRebuiltForrest over the graph of some scan, and one of its trees.
InitTree ==
    /\ \E nodes \in NodeTables :
           /\ NodeTableOK(nodes)
           /\ \E edges \in SUBSET KeyPointers(nodes) :
                  graph = [Nodes |-> nodes, Edges |-> edges]
    /\ rebuiltTree \in TreeIDs
    /\ Roots = {}
    /\ Leafs = {}
    /\ incItems = EmptyIndex
    /\ allItems = EmptyIndex
    /\ nAddRoot = 0
    /\ cbAddedItem = [k \in ItemKeys |-> 0]
    /\ ltrGot = NotAsked

treePanicked ==
    incItems.panic \/ allItems.panic \/ (ltrGot # NotAsked /\ ltrGot.panic)

AddRoot(rootNode) ==
    /\ ~treePanicked
    /\ nAddRoot < MaxAddRoots
    /\ nAddRoot' = nAddRoot + 1
    /\ Roots' = Roots \cup {rootNode}
    /\ Leafs' = addRootLeafs(rebuiltTree, graph, Leafs, rootNode)
    /\ cbAddedItem' = addRootCallbacks(rebuiltTree, graph, Leafs, rootNode, cbAddedItem)
    /\ UNCHANGED <<graph, rebuiltTree, incItems, allItems, ltrGot, treeFrame>>

ItemsCall ==
    /\ ~treePanicked
    /\ incItems' = Items(rebuiltTree, graph, incItems, Leafs)
    /\ UNCHANGED <<graph, rebuiltTree, Roots, Leafs, allItems, nAddRoot, cbAddedItem,
                   ltrGot, treeFrame>>

PotentialItemsCall ==
    /\ ~treePanicked
    /\ allItems' = PotentialItems(rebuiltTree, graph, allItems)
    /\ UNCHANGED <<graph, rebuiltTree, Roots, Leafs, incItems, nAddRoot, cbAddedItem,
                   ltrGot, treeFrame>>

\* tree.LeafToRoots(leaf), as the rebuild loop calls it between AddRoot calls.
LeafToRootsCall(leaf) ==
    /\ ~treePanicked
    /\ ltrGot' = LeafToRoots(rebuiltTree, graph, Roots, leaf)
    /\ UNCHANGED <<graph, rebuiltTree, Roots, Leafs, incItems, allItems, nAddRoot,
                   cbAddedItem, treeFrame>>

\* The rebuild loop as far as it attaches roots: AddRoot and LeafToRoots.
NextAttach ==
    \/ \E rootNode \in NodeAddrs : AddRoot(rootNode)
    \/ \E leaf \in NodeAddrs : LeafToRootsCall(leaf)

NextTree ==
    \/ \E rootNode \in NodeAddrs : AddRoot(rootNode)
    \/ ItemsCall
    \/ PotentialItemsCall

(***************************************************************************)
(* AddRoot under a context that is cancelled after some number of the      *)
(* ctx.Err() tests of indexNode have passed.  The index being built is the *)
(* set of nodes done and their roots; forrest.leafs.GetOrElse keeps what   *)
(* the function it is given returns.                                       *)
(***************************************************************************)
NotMemoized == [memo |-> FALSE]
CtxChecks == 0..(2 * MaxNodes)

InitCancel ==
    /\ leafsCache = NotMemoized
    /\ ctxCancelled = FALSE

\* indexNode(ctx, node, index, progress, stack) with st.checks tests of
\* ctx.Err() left to pass, and the loop over kps from the sources in froms on.
RECURSIVE indexNodeCtx(_, _, _, _)
RECURSIVE indexNodeKps(_, _, _, _, _)
indexNodeCtx(t, g, node, st) ==
    IF st.checks = 0 THEN st
    ELSE LET st1 == [st EXCEPT !.checks = st.checks - 1]
         IN  IF node \in st.done THEN st1
             ELSE IF ~nodeOwnerOK(t, g, node)
             THEN [st1 EXCEPT !.done = st1.done \cup {node}, !.roots[node] = {}]
             ELSE LET froms == SortedKeys({kp[1] : kp \in {e \in g.Edges :
                                     e[2] = node /\ nodeOwnerOK(t, g, e[1])}})
                      r == indexNodeKps(t, g, froms, st1, {})
                  IN  [r.st EXCEPT !.done = r.st.done \cup {node},
                                   !.roots[node] = IF r.roots = {} THEN {node} ELSE r.roots]

indexNodeKps(t, g, froms, st, roots) ==
    IF froms = <<>> THEN [st |-> st, roots |-> roots]
    ELSE LET st1 == indexNodeCtx(t, g, Head(froms), st)
             got == IF Head(froms) \in st1.done THEN st1.roots[Head(froms)] ELSE {}
         IN  indexNodeKps(t, g, Tail(froms), st1, roots \cup got)

\* leafToRoots' loop over maps.SortedKeys(tree.forrest.graph.Nodes)
RECURSIVE indexNodesCtx(_, _, _, _)
indexNodesCtx(t, g, nodes, st) ==
    IF nodes = <<>> THEN st
    ELSE indexNodesCtx(t, g, Tail(nodes), indexNodeCtx(t, g, Head(nodes), st))

\* The function leafToRoots gives to GetOrElse, under a ctx that lets checks
\* tests pass: the map it returns, and whether ctx was cancelled by then.
leafToRootsCtx(t, g, checks) ==
    LET st == indexNodesCtx(t, g, SortedKeys(NodeAddrs),
                            [done |-> {}, roots |-> [n \in NodeAddrs |-> {}],
                             checks |-> checks])
    IN  [map |-> [leaf \in {n \in st.done : g.Nodes[n].Level = 0 /\ st.roots[n] # {}} |->
                     st.roots[leaf]],
         cancelled |-> st.checks = 0]

\* tree.AddRoot(ctx, rootNode), ctx being cancelled once checks tests of
\* ctx.Err() have passed.
AddRootCtx(rootNode, checks) ==
    /\ ~treePanicked
    /\ nAddRoot < MaxAddRoots
    /\ nAddRoot' = nAddRoot + 1
    /\ Roots' = Roots \cup {rootNode}
    /\ LET computed == leafToRootsCtx(rebuiltTree, graph, IF ctxCancelled THEN 0 ELSE checks)
           ltr == IF leafsCache.memo THEN leafsCache.map ELSE computed.map
           added == {leaf \in DOMAIN ltr : ~(leaf \in Leafs \/ rootNode \notin ltr[leaf])}
       IN  /\ leafsCache' = [memo |-> TRUE, map |-> ltr]
           /\ ctxCancelled' = (ctxCancelled \/ (~leafsCache.memo /\ computed.cancelled))
           /\ Leafs' = Leafs \cup added
           /\ cbAddedItem' = [k \in ItemKeys |-> cbAddedItem[k] + ItemsWithKey(added, k)]
    /\ UNCHANGED <<graph, rebuiltTree, incItems, allItems, ltrGot, cancelFrame>>

NextCancel ==
    \E rootNode \in NodeAddrs, checks \in CtxChecks : AddRootCtx(rootNode, checks)

(***************************************************************************)
(* One AddRoot call in a goroutine of its own, with Items and LeafToRoots  *)
(* called from other goroutines.  AddRoot holds tree.mu from its first     *)
(* statement to its return and inserts its leaves one at a time; Items     *)
(* evaluates maps.SortedKeys(tree.Leafs) before it calls items, which is   *)
(* what takes tree.mu; LeafToRoots takes tree.mu before it reads.          *)
(***************************************************************************)
InitTreeMu ==
    /\ treeMu = FALSE
    /\ addRootPc = [at |-> "idle"]
    /\ itemsPc = [at |-> "idle"]

\* AddRoot: tree.mu.Lock(), tree.Roots.Insert(rootNode), leafToRoots.
RaceAddRootLock(rootNode) ==
    /\ ~treePanicked
    /\ addRootPc.at = "idle"
    /\ ~treeMu
    /\ treeMu' = TRUE
    /\ Roots' = Roots \cup {rootNode}
    /\ addRootPc' = [at |-> "loop", rootNode |-> rootNode, before |-> Leafs,
                     after |-> addRootLeafs(rebuiltTree, graph, Leafs, rootNode),
                     todo |-> SortedKeys(addRootAdded(rebuiltTree, graph, Leafs, rootNode))]
    /\ UNCHANGED <<graph, rebuiltTree, Leafs, incItems, allItems, nAddRoot, cbAddedItem,
                   ltrGot, itemsPc, tmuFrame>>

\* AddRoot: one pass of the loop that does not `continue`.
RaceAddRootInsert ==
    /\ addRootPc.at = "loop"
    /\ addRootPc.todo # <<>>
    /\ Leafs' = Leafs \cup {Head(addRootPc.todo)}
    /\ cbAddedItem' = [k \in ItemKeys |->
                           cbAddedItem[k] + ItemsWithKey({Head(addRootPc.todo)}, k)]
    /\ addRootPc' = [addRootPc EXCEPT !.todo = Tail(addRootPc.todo)]
    /\ UNCHANGED <<graph, rebuiltTree, Roots, incItems, allItems, nAddRoot, ltrGot,
                   treeMu, itemsPc, tmuFrame>>

\* AddRoot: the loop is over, the deferred tree.mu.Unlock() runs.
RaceAddRootUnlock ==
    /\ addRootPc.at = "loop"
    /\ addRootPc.todo = <<>>
    /\ treeMu' = FALSE
    /\ nAddRoot' = nAddRoot + 1
    /\ addRootPc' = [addRootPc EXCEPT !.at = "returned"]
    /\ UNCHANGED <<graph, rebuiltTree, Roots, Leafs, incItems, allItems, cbAddedItem,
                   ltrGot, itemsPc, tmuFrame>>

\* Items: maps.SortedKeys(tree.Leafs), the argument of the call of items.
RaceItemsLeafs ==
    /\ ~treePanicked
    /\ itemsPc.at = "idle"
    /\ itemsPc' = [at |-> "items", leafs |-> Leafs]
    /\ UNCHANGED <<treeVars, treeMu, addRootPc, tmuFrame>>

\* Items: tree.items(ctx, incItems, leafs), under tree.mu from Lock to return.
RaceItemsIndex ==
    /\ itemsPc.at = "items"
    /\ ~treeMu
    /\ incItems' = Items(rebuiltTree, graph, incItems, itemsPc.leafs)
    /\ itemsPc' = [itemsPc EXCEPT !.at = "returned"]
    /\ UNCHANGED <<graph, rebuiltTree, Roots, Leafs, allItems, nAddRoot, cbAddedItem,
                   ltrGot, treeMu, addRootPc, tmuFrame>>

\* LeafToRoots(leaf), under tree.mu from Lock to return.
RaceLeafToRoots(leaf) ==
    /\ ~treeMu
    /\ ltrGot = NotAsked
    /\ LeafToRootsCall(leaf)

NextTreeRace ==
    \/ \E rootNode \in NodeAddrs : RaceAddRootLock(rootNode)
    \/ RaceAddRootInsert
    \/ RaceAddRootUnlock
    \/ RaceItemsLeafs
    \/ RaceItemsIndex
    \/ \E leaf \in NodeAddrs : RaceLeafToRoots(leaf)

(***************************************************************************)
(* OldRebuiltForrest.RebuiltTree, called by NumThreads goroutines.  A      *)
(* cached oldRebuiltTree is its ID, whether RootErr is set, and the serial *)
(* number of the rawTreeWalk that built it; serial 0 is no entry.          *)
(***************************************************************************)
ROOT_TREE_OBJECTID == 1
NoThread == 0
NotCached == [ID |-> NoTree, RootErr |-> FALSE, walk |-> 0]
OrtIdle == [at |-> "idle", treeID |-> NoTree, rootFailed |-> FALSE]

\* A variant in which Lock never waits.
ortLockFree_NoLock(m) == TRUE

\* sync.Mutex.Lock goes through when no goroutine holds the mutex.
ortLockFree(m) == m = NoThread

\* The mutex RebuiltTree takes for treeID.
ortMutex(treeID) == IF treeID = ROOT_TREE_OBJECTID THEN rootTreeMu ELSE treesMu

\* rawTreeWalk's outcome for treeID: RootErr is set when the superblock or
\* the root tree cannot give the tree's root.
ortEntry(treeID, serial, rootFailed) ==
    [ID |-> treeID, RootErr |-> (rootFailed \/ treeID \in brokenTrees), walk |-> serial]

InitOrt ==
    /\ rootTreeMu = NoThread
    /\ treesMu = NoThread
    /\ trees = [id \in TreeIDs |-> NotCached]
    /\ walks = [id \in TreeIDs |-> 0]
    /\ brokenTrees = {}
    /\ ortPc = [t \in Threads |-> OrtIdle]
    /\ ortGot = [t \in Threads |-> NotCached]

\* A filesystem on which the roots of some trees cannot be found.
InitOrtBroken ==
    /\ rootTreeMu = NoThread
    /\ treesMu = NoThread
    /\ trees = [id \in TreeIDs |-> NotCached]
    /\ walks = [id \in TreeIDs |-> 0]
    /\ brokenTrees \in SUBSET TreeIDs
    /\ ortPc = [t \in Threads |-> OrtIdle]
    /\ ortGot = [t \in Threads |-> NotCached]

\* RebuiltTree(treeID) from Lock to either the return of the cached entry or
\* the start of rawTreeWalk with the mutex held.
RebuiltTreeCall(t, treeID) ==
    /\ ortPc[t] = OrtIdle
    /\ ortLockFree(ortMutex(treeID))
    /\ IF trees[treeID] # NotCached
       THEN /\ ortGot' = [ortGot EXCEPT ![t] = trees[treeID]]
            /\ UNCHANGED <<rootTreeMu, treesMu, walks, ortPc>>
       ELSE /\ walks[treeID] < MaxWalks
            /\ walks' = [walks EXCEPT ![treeID] = walks[treeID] + 1]
            /\ IF treeID = ROOT_TREE_OBJECTID
               THEN /\ rootTreeMu' = t
                    /\ ortPc' = [ortPc EXCEPT ![t] =
                                    [at |-> "walk", treeID |-> treeID, rootFailed |-> FALSE]]
                    /\ UNCHANGED treesMu
               ELSE /\ treesMu' = t
                    /\ ortPc' = [ortPc EXCEPT ![t] =
                                    [at |-> "lookup", treeID |-> treeID, rootFailed |-> FALSE]]
                    /\ UNCHANGED rootTreeMu
            /\ UNCHANGED ortGot
    /\ UNCHANGED <<trees, brokenTrees, ortFrame>>

\* LookupTreeRoot for a tree other than the root tree: the nested
\* RebuiltTree(ROOT_TREE_OBJECTID), which indexes the root tree if it has to.
RebuiltTreeLookupRoot(t) ==
    /\ ortPc[t].at = "lookup"
    /\ ortLockFree(rootTreeMu)
    /\ IF trees[ROOT_TREE_OBJECTID] # NotCached
       THEN /\ ortPc' = [ortPc EXCEPT ![t].at = "walk",
                                      ![t].rootFailed = trees[ROOT_TREE_OBJECTID].RootErr]
            /\ UNCHANGED <<trees, walks>>
       ELSE /\ walks[ROOT_TREE_OBJECTID] < MaxWalks
            /\ walks' = [walks EXCEPT ![ROOT_TREE_OBJECTID] = walks[ROOT_TREE_OBJECTID] + 1]
            /\ trees' = [trees EXCEPT ![ROOT_TREE_OBJECTID] =
                            ortEntry(ROOT_TREE_OBJECTID, walks'[ROOT_TREE_OBJECTID], FALSE)]
            /\ ortPc' = [ortPc EXCEPT ![t].at = "walk",
                                      ![t].rootFailed = trees'[ROOT_TREE_OBJECTID].RootErr]
    /\ UNCHANGED <<rootTreeMu, treesMu, brokenTrees, ortGot, ortFrame>>

\* The end of rawTreeWalk: the entry is stored, the mutex released, and the
\* entry returned.
RebuiltTreeStore(t) ==
    /\ ortPc[t].at = "walk"
    /\ LET treeID == ortPc[t].treeID
           cacheEntry == ortEntry(treeID, walks[treeID], ortPc[t].rootFailed)
       IN  /\ trees' = [trees EXCEPT ![treeID] = cacheEntry]
           /\ ortGot' = [ortGot EXCEPT ![t] = cacheEntry]
           /\ IF treeID = ROOT_TREE_OBJECTID
              THEN rootTreeMu' = NoThread /\ UNCHANGED treesMu
              ELSE treesMu' = NoThread /\ UNCHANGED rootTreeMu
    /\ ortPc' = [ortPc EXCEPT ![t] = OrtIdle]
    /\ UNCHANGED <<walks, brokenTrees, ortFrame>>

NextOrt ==
    \/ \E t \in Threads, treeID \in TreeIDs : RebuiltTreeCall(t, treeID)
    \/ \E t \in Threads : RebuiltTreeLookupRoot(t)
    \/ \E t \in Threads : RebuiltTreeStore(t)

(***************************************************************************)
(* The index rawTreeWalk builds for one tree, and TreeSearchAll over it.   *)
(* Keys are 1..MaxKey; a searcher is a range of keys lo..hi.               *)
(***************************************************************************)
IdxKeys == 1..MaxKey
Searchers == {r \in IdxKeys \X IdxKeys : r[1] <= r[2]}
NotSearched == [cnt |-> -1]

\* searcher.Search(key, size): negative when the searched range lies left
\* of key, positive when it lies right of it, zero when key is in it.
searcherSearch(searcher, key) ==
    IF key > searcher[2] THEN -1
    ELSE IF key < searcher[1] THEN 1
    ELSE 0

\* cacheEntry.Items.Subrange: the indexed keys on which the searcher gives 0.
itemsSubrange(indexed, searcher) ==
    {k \in indexed : searcherSearch(searcher, k) = 0}

\* cacheEntry.Errors.Subrange: the recorded errors whose interval Min..Max
\* holds a key of the searched range.
errorsSubrange(errors, searcher) ==
    {e \in errors : searcherSearch(searcher, e.Min) >= 0
                     /\ searcherSearch(searcher, e.Max) <= 0}

\* tree.addErrs: nil is [errs |-> {}, err |-> ""]; else the MultiError of
\* the interval errors, with err appended when it is not nil.
addErrs(errors, searcher, err) ==
    [errs |-> errorsSubrange(errors, searcher), err |-> err]

\* A variant of treeSubrange's count test that never gives ErrNoItem.
treeSubrangeErr_Never(cnt, min) == ""

\* treeSubrange: ErrNoItem when fewer than min items were handled.
treeSubrangeErr(cnt, min) == IF cnt < min THEN "ErrNoItem" ELSE ""

\* tree.treeSubrange(ctx, min, searcher, handleFn): the items handed to
\* handleFn and the error returned.
treeSubrange(indexed, errors, min, searcher) ==
    LET found == itemsSubrange(indexed, searcher)
    IN  [ret |-> found,
         error |-> addErrs(errors, searcher,
                           treeSubrangeErr(Cardinality(found), min))]

NoError == [errs |-> {}, err |-> ""]

\* RebuiltTree(treeID) on a tree not cached yet: rawTreeWalk starts, and
\* returns at once with RootErr when the root of the tree is not found.
IndexStart(rootFailed) ==
    /\ idxAt = "none"
    /\ idxAt' = IF rootFailed THEN "ready" ELSE "walk"
    /\ idxRootErr' = rootFailed
    /\ UNCHANGED <<idxItems, idxErrors, searchGot, idxFrame>>

\* rawTreeWalk's Item callback; a key already indexed is a panic.
WalkItem(key) ==
    /\ idxAt = "walk"
    /\ key \notin idxItems
    /\ idxItems' = idxItems \cup {key}
    /\ UNCHANGED <<idxAt, idxRootErr, idxErrors, searchGot, idxFrame>>

\* rawTreeWalk's BadNode callback: the error is recorded over the key range
\* expected of the node.
WalkBadNode(min, max) ==
    /\ idxAt = "walk"
    /\ Cardinality(idxErrors) < MaxBadNodes
    /\ idxErrors' = idxErrors \cup
           {[Min |-> min, Max |-> max, Err |-> Cardinality(idxErrors) + 1]}
    /\ UNCHANGED <<idxAt, idxRootErr, idxItems, searchGot, idxFrame>>

\* The walk ends and RebuiltTree stores the entry.
IndexDone ==
    /\ idxAt = "walk"
    /\ idxAt' = "ready"
    /\ UNCHANGED <<idxRootErr, idxItems, idxErrors, searchGot, idxFrame>>

\* OldRebuiltForrest.TreeSearchAll(treeID, searcher) on the cached tree.
TreeSearchAll(searcher) ==
    /\ idxAt = "ready"
    /\ searchGot' =
           IF idxRootErr
           THEN [searcher |-> searcher, cnt |-> 0, ret |-> {},
                 error |-> [errs |-> {}, err |-> "RootErr"]]
           ELSE LET r == treeSubrange(idxItems, idxErrors, 1, searcher)
                IN  [searcher |-> searcher, cnt |-> Cardinality(r.ret),
                     ret |-> r.ret, error |-> r.error]
    /\ UNCHANGED <<idxAt, idxRootErr, idxItems, idxErrors, idxFrame>>

NextSearch ==
    \/ \E rootFailed \in BOOLEAN : IndexStart(rootFailed)
    \/ \E key \in IdxKeys : WalkItem(key)
    \/ \E r \in Searchers : WalkBadNode(r[1], r[2])
    \/ IndexDone
    \/ \E searcher \in Searchers : TreeSearchAll(searcher)

(***************************************************************************)
(* oldRebuiltTree.TreeCheckOwner over a filesystem of trees TreeIDs; the   *)
(* UUID of tree t is t, and a tree's parent, if it has one, has a lower    *)
(* id.  A filesystem gives each tree's ParentUUID and ParentGen, the trees *)
(* whose RebuiltTree has RootErr set, whether the UUID tree has RootErr    *)
(* set, and what the UUID tree holds for each UUID.                        *)
(***************************************************************************)
NoUUID == 0
UUIDItems == {"missing", "error", "map"}
Filesystems ==
    [ParentUUID : {f \in [TreeIDs -> {NoUUID} \cup TreeIDs] :
                      \A t \in TreeIDs : f[t] < t},
     ParentGen : [TreeIDs -> 1..(MaxGen - 1)],
     RootErr : SUBSET TreeIDs,
     UUIDTreeRootErr : BOOLEAN,
     UUIDTree : [TreeIDs -> UUIDItems]]
NotChecked == [tree |-> NoTree]

\* if failOpen { return nil }; return fmt.Errorf("unable to determine ...")
unresolvedReturn(failOpen) == IF failOpen THEN "" ELSE "unable to determine"

\* tree.TreeCheckOwner(ctx, failOpen, owner, gen): "" is the nil error.
RECURSIVE TreeCheckOwner(_, _, _, _, _)
TreeCheckOwner(fs, tree, failOpen, owner, gen) ==
    IF owner = tree THEN ""
    ELSE IF fs.ParentUUID[tree] = NoUUID THEN "not acceptable"
    ELSE IF gen > fs.ParentGen[tree] THEN "not with claimed generation"
    ELSE IF fs.UUIDTreeRootErr THEN ""
    ELSE IF fs.UUIDTree[fs.ParentUUID[tree]] = "missing" THEN unresolvedReturn(failOpen)
    ELSE IF fs.UUIDTree[fs.ParentUUID[tree]] = "error" THEN unresolvedReturn(failOpen)
    ELSE IF fs.ParentUUID[tree] \in fs.RootErr THEN unresolvedReturn(failOpen)
    ELSE TreeCheckOwner(fs, fs.ParentUUID[tree], failOpen, owner, gen)

\* A filesystem is opened: the trees that callers will check owners in.
OpenFilesystem(fs) ==
    /\ checkGot = NotChecked
    /\ checkGot' = [fs |-> fs, tree |-> NoTree]
    /\ UNCHANGED <<rfRoots, rfLax, rfTrees, rfGot, forrestFrame>>

TreeCheckOwnerCall(tree, failOpen, owner, gen) ==
    /\ checkGot # NotChecked
    /\ checkGot.tree = NoTree
    /\ checkGot' = [fs |-> checkGot.fs, tree |-> tree, failOpen |-> failOpen,
                    owner |-> owner, gen |-> gen,
                    err |-> TreeCheckOwner(checkGot.fs, tree, failOpen, owner, gen)]
    /\ UNCHANGED <<rfRoots, rfLax, rfTrees, rfGot, forrestFrame>>

NextCheckOwner ==
    \/ checkGot = NotChecked /\ \E fs \in Filesystems : OpenFilesystem(fs)
    \/ \E tree \in TreeIDs, failOpen \in BOOLEAN, owner \in TreeIDs, gen \in Generations :
           TreeCheckOwnerCall(tree, failOpen, owner, gen)

(***************************************************************************)
(* oldRebuiltTree.treeWalk and treeSubrange, one indexed item at a time.   *)
(* The index gives each key the node that holds its item; the walk keeps   *)
(* one node from readNode and gives it back with ReleaseNode, which does   *)
(* nothing on a nil node.                                                  *)
(***************************************************************************)
NoNode == 0
WalkIndexes == [IdxKeys -> {NoNode} \cup NodeAddrs]
IndexedKeys(index) == {k \in IdxKeys : index[k] # NoNode}

InitWalk ==
    /\ walkIndex = [k \in IdxKeys |-> NoNode]
    /\ walkPc = [at |-> "idle"]
    /\ nodePins = [n \in NodeAddrs |-> 0]
    /\ ctxDone = FALSE
    /\ forrestCtxDone = FALSE

\* tree.Items.Range and tree.Items.Subrange hand over the items in key order.
rangeNext(todo) == SetMin(todo)

\* A variant of the walk's test that reads the node again for every item.
walkNeedsNode_Always(node, laddr) == TRUE

\* node == nil || node.Head.Addr != indexItem.Value.Node.LAddr
walkNeedsNode(node, laddr) == node = NoNode \/ node # laddr

\* tree.forrest.inner.ReleaseNode(node)
ReleaseNode(pins, node) ==
    IF node = NoNode THEN pins ELSE [pins EXCEPT ![node] = pins[node] - 1]

\* tree.forrest.readNode(nodeInfo), when AcquireNode gives the node
readNode(pins, laddr) == [pins EXCEPT ![laddr] = pins[laddr] + 1]

WalkBegin(op, index, todo) ==
    /\ walkPc.at = "idle"
    /\ walkIndex' = index
    /\ walkPc' = [at |-> "range", op |-> op, items |-> todo, todo |-> todo, node |-> NoNode,
                  visited |-> <<>>, acquired |-> 0, released |-> 0, exit |-> ""]
    /\ UNCHANGED <<nodePins, ctxDone, forrestCtxDone, walkFrame>>

\* tree.treeWalk(ctx, cbs) with an Item or a BadItem callback.
treeWalkCall(index) == WalkBegin("treeWalk", index, IndexedKeys(index))

\* tree.treeSubrange(ctx, min, searcher, handleFn)
treeSubrangeCall(index, searcher) ==
    WalkBegin("treeSubrange", index, itemsSubrange(IndexedKeys(index), searcher))

\* The walk leaves Range or Subrange for the trailing ReleaseNode.
WalkLeave(exit) == walkPc' = [walkPc EXCEPT !.at = "release", !.exit = exit]

\* One call of the function given to Range or Subrange, or their return at
\* the end of the items: ioError is AcquireNode failing, goOn what handleFn
\* returns, cancelled whether ctx is cancelled while the callback runs.
WalkItemStep(ioError, goOn, cancelled) ==
    /\ walkPc.at = "range"
    /\ IF walkPc.todo = {}
       THEN WalkLeave("end") /\ UNCHANGED <<nodePins, ctxDone>>
       ELSE IF walkPc.op = "treeWalk" /\ (ctxDone \/ forrestCtxDone)
       THEN WalkLeave("cancel") /\ UNCHANGED <<nodePins, ctxDone>>
       ELSE LET key == rangeNext(walkPc.todo)
                laddr == walkIndex[key]
                reads == walkNeedsNode(walkPc.node, laddr)
                released == IF reads /\ walkPc.node # NoNode THEN 1 ELSE 0
            IN  IF reads /\ ioError
                THEN /\ nodePins' = ReleaseNode(nodePins, walkPc.node)
                     /\ walkPc' = [walkPc EXCEPT !.at = "panicked",
                                                 !.released = walkPc.released + released]
                     /\ UNCHANGED ctxDone
                ELSE /\ nodePins' = IF reads
                                    THEN readNode(ReleaseNode(nodePins, walkPc.node), laddr)
                                    ELSE nodePins
                     /\ ctxDone' = IF walkPc.op = "treeWalk" THEN cancelled ELSE ctxDone
                     /\ LET stop == IF walkPc.op = "treeWalk" THEN cancelled ELSE ~goOn
                        IN  walkPc' =
                                [walkPc EXCEPT
                                    !.at = IF stop THEN "release" ELSE "range",
                                    !.exit = IF ~stop THEN ""
                                             ELSE IF walkPc.op = "treeWalk" THEN "cancel"
                                             ELSE "stop",
                                    !.todo = walkPc.todo \ {key},
                                    !.node = laddr,
                                    !.visited = Append(walkPc.visited, key),
                                    !.acquired = walkPc.acquired + (IF reads THEN 1 ELSE 0),
                                    !.released = walkPc.released + released]
    /\ UNCHANGED <<walkIndex, forrestCtxDone, walkFrame>>

\* tree.forrest.inner.ReleaseNode(node) after Range or Subrange, and return.
WalkReturn ==
    /\ walkPc.at = "release"
    /\ nodePins' = ReleaseNode(nodePins, walkPc.node)
    /\ walkPc' = [walkPc EXCEPT !.at = "returned", !.node = NoNode,
                                !.released = walkPc.released
                                             + (IF walkPc.node # NoNode THEN 1 ELSE 0)]
    /\ UNCHANGED <<walkIndex, ctxDone, forrestCtxDone, walkFrame>>

\* The forrest's context is cancelled while a walk is between two items.
CancelForrest ==
    /\ walkPc.at = "range"
    /\ ~forrestCtxDone
    /\ forrestCtxDone' = TRUE
    /\ UNCHANGED <<walkIndex, walkPc, nodePins, ctxDone, walkFrame>>

NextWalk ==
    \/ walkPc.at = "idle" /\ \E index \in WalkIndexes : treeWalkCall(index)
    \/ walkPc.at = "idle" /\ \E index \in WalkIndexes, searcher \in Searchers :
                                 treeSubrangeCall(index, searcher)
    \/ \E ioError, goOn, cancelled \in BOOLEAN : WalkItemStep(ioError, goOn, cancelled)
    \/ WalkReturn
    \/ CancelForrest

(***************************************************************************)
(* TreeCheckOwner, one iteration of its `for` at a time.  What the disk    *)
(* holds is found out when the loop first asks: RebuiltTree indexes a tree *)
(* once and keeps it in bt.trees, and the UUID tree, once indexed, gives   *)
(* the same item for the same UUID.  A damaged filesystem may give any     *)
(* tree any ParentUUID, its own or a descendant's included.                *)
(***************************************************************************)
Unread == "unread"
UnreadTree == [unread |-> TRUE]
TreeFacts == [ParentUUID : {NoUUID} \cup TreeIDs, ParentGen : 1..(MaxGen - 1), RootErr : BOOLEAN]

\* Reading x from the disk gives v: what was read before is read again.
ReadsAs(x, unread, v) == x = unread \/ x = v

InitCheckLoop ==
    /\ checkTrees = [t \in TreeIDs |-> UnreadTree]
    /\ checkItems = [u \in TreeIDs |-> Unread]
    /\ checkPc = [at |-> "idle"]

\* `return err` from TreeCheckOwner.
CheckOwnerReturn(err) ==
    checkPc' = [checkPc EXCEPT !.at = "returned", !.err = err]

\* tree.TreeCheckOwner(ctx, failOpen, owner, gen) is called on a tree that
\* RebuiltTree returned without RootErr.
CheckOwnerEnter(tree, failOpen, owner, gen, facts) ==
    /\ checkPc.at = "idle"
    /\ ~facts.RootErr
    /\ checkTrees' = [checkTrees EXCEPT ![tree] = facts]
    /\ checkPc' = [at |-> "loop", receiver |-> tree, failOpen |-> failOpen,
                   owner |-> owner, gen |-> gen,
                   tree |-> tree, uuidTree |-> FALSE, err |-> ""]
    /\ UNCHANGED <<checkItems, loopFrame>>

\* One iteration of TreeCheckOwner's `for`: uuidRootErr is uuidTree.RootErr,
\* item what the UUID tree holds for tree.ParentUUID, parent the tree that
\* RebuiltTree makes of the item's ObjID.
CheckOwnerIteration(uuidRootErr, item, parent) ==
    /\ checkPc.at = "loop"
    /\ LET tree == checkPc.tree
           facts == checkTrees[tree]
           parentID == facts.ParentUUID
       IN  IF checkPc.owner = tree
           THEN CheckOwnerReturn("") /\ UNCHANGED <<checkTrees, checkItems>>
           ELSE IF parentID = NoUUID
           THEN CheckOwnerReturn("not acceptable") /\ UNCHANGED <<checkTrees, checkItems>>
           ELSE IF checkPc.gen > facts.ParentGen
           THEN /\ CheckOwnerReturn("not with claimed generation")
                /\ UNCHANGED <<checkTrees, checkItems>>
           ELSE IF ~checkPc.uuidTree /\ uuidRootErr
           THEN CheckOwnerReturn("") /\ UNCHANGED <<checkTrees, checkItems>>
           ELSE /\ ReadsAs(checkItems[parentID], Unread, item)
                /\ checkItems' = [checkItems EXCEPT ![parentID] = item]
                /\ IF item # "map"
                   THEN /\ CheckOwnerReturn(unresolvedReturn(checkPc.failOpen))
                        /\ UNCHANGED checkTrees
                   ELSE /\ ReadsAs(checkTrees[parentID], UnreadTree, parent)
                        /\ checkTrees' = [checkTrees EXCEPT ![parentID] = parent]
                        /\ IF parent.RootErr
                           THEN CheckOwnerReturn(unresolvedReturn(checkPc.failOpen))
                           ELSE checkPc' = [checkPc EXCEPT !.tree = parentID,
                                                           !.uuidTree = TRUE]
    /\ UNCHANGED loopFrame

NextCheckLoop ==
    \/ \E tree \in TreeIDs, failOpen \in BOOLEAN, owner \in TreeIDs, gen \in Generations,
          facts \in TreeFacts : CheckOwnerEnter(tree, failOpen, owner, gen, facts)
    \/ \E uuidRootErr \in BOOLEAN, item \in UUIDItems, parent \in TreeFacts :
           CheckOwnerIteration(uuidRootErr, item, parent)

(***************************************************************************)
(* RebuiltForrest.RebuiltTree over the callbacks of TestRebuiltTreeCycles: *)
(* LookupRoot gives each tree of RfTreeIDs a root item, and LookupUUID     *)
(* turns its ParentUUID into the id of another tree, or there is none.     *)
(* A *RebuiltTree is its id in RebuiltForrest.trees.                       *)
(***************************************************************************)
FirstTreeID == 303
LastTreeID == 306
RfTreeIDs == FirstTreeID..LastTreeID
NoParent == 0
RootTables == [RfTreeIDs -> {NoParent} \cup RfTreeIDs]

\* The roots of the test: 306 -> 305 -> 304 -> 303 -> 305.
mockRoots ==
    [t \in RfTreeIDs |->
        CASE t = 306 -> 305
          [] t = 305 -> 304
          [] t = 304 -> 303
          [] t = 303 -> 305]

NoRfTree == [ID |-> NoTree]
NewRfTree(treeID) ==
    [ID |-> treeID, Parent |-> NoParent, ancestorLoop |-> FALSE,
     ancestorRoot |-> NoTree, rootErr |-> <<>>]

SeqHas(seq, x) == \E i \in DOMAIN seq : seq[i] = x

\* rebuildTree(ctx, treeID, stack): the registry it leaves.  A tree already
\* in the registry is left alone unless it is on the stack; one on the
\* stack is a loop, and gets a new entry with ancestorLoop set.
RECURSIVE rebuildTree(_, _, _, _)
rebuildTree(registry, roots, treeID, stack) ==
    LET loop == registry[treeID] # NoRfTree /\ SeqHas(stack, treeID)
        made == [registry EXCEPT ![treeID] = NewRfTree(treeID)]
    IN  IF registry[treeID] # NoRfTree /\ ~loop THEN registry
        ELSE IF loop THEN [made EXCEPT ![treeID].ancestorLoop = TRUE]
        ELSE IF roots[treeID] = NoParent THEN made
        ELSE LET parentID == roots[treeID]
                 built == rebuildTree(made, roots, parentID, stack \o <<treeID>>)
                 linked == [built EXCEPT ![treeID].Parent = parentID]
             IN  IF linked[parentID].ancestorLoop
                 THEN [linked EXCEPT ![treeID].ancestorLoop = TRUE]
                 ELSE linked

\* A variant of the walk that stops before the repeated id.
RECURSIVE loopPath_NoRepeat(_, _, _)
loopPath_NoRepeat(registry, treeID, loop) ==
    IF SeqHas(loop, treeID) THEN loop
    ELSE loopPath_NoRepeat(registry, registry[treeID].Parent, loop \o <<treeID>>)

\* The walk up the Parent pointers from a tree with ancestorLoop set: the
\* ids met, through the first one met twice.
RECURSIVE loopPath(_, _, _)
loopPath(registry, treeID, loop) ==
    IF SeqHas(loop, treeID) THEN loop \o <<treeID>>
    ELSE loopPath(registry, registry[treeID].Parent, loop \o <<treeID>>)

\* A variant that takes the repeated id for the ancestor root.
ancestorRootOf_Repeated(loop) == loop[Len(loop)]

\* The tree the walk met last before the repeated id.
ancestorRootOf(loop) == loop[Len(loop) - 1]

\* RebuiltForrest.RebuiltTree(ctx, treeID): the registry it leaves and what
\* it returns; err is the path of "loop detected", or <<>> for nil.
RebuiltTree(registry, roots, lax, treeID) ==
    LET built == rebuildTree(registry, roots, treeID, <<>>)
        tree == built[treeID]
    IN  IF tree.ancestorLoop /\ tree.rootErr = <<>>
        THEN LET loop == loopPath(built, treeID, <<>>)
             IN  IF lax
                 THEN LET kept == [built EXCEPT ![treeID].ancestorRoot = ancestorRootOf(loop)]
                      IN  [trees |-> kept, tree |-> kept[treeID], err |-> <<>>]
                 ELSE [trees |-> [built EXCEPT ![treeID].rootErr = loop],
                       tree |-> NoRfTree, err |-> loop]
        ELSE IF tree.rootErr # <<>>
        THEN [trees |-> built, tree |-> NoRfTree, err |-> tree.rootErr]
        ELSE [trees |-> built, tree |-> tree, err |-> <<>>]

\* NewRebuiltForrest(nil, Graph{}, cbs, laxAncestors)
NewRebuiltForrest(roots, lax) ==
    /\ rfRoots = <<>>
    /\ rfRoots' = roots
    /\ rfLax' = lax
    /\ rfTrees' = [t \in RfTreeIDs |-> NoRfTree]
    /\ UNCHANGED <<checkGot, rfGot, forrestFrame>>

\* rfs.RebuiltTree(ctx, treeID)
RfRebuiltTreeCall(treeID) ==
    /\ rfRoots # <<>>
    /\ LET r == RebuiltTree(rfTrees, rfRoots, rfLax, treeID)
       IN  /\ rfTrees' = r.trees
           /\ rfGot' = [treeID |-> treeID, had |-> rfTrees[treeID] # NoRfTree,
                        tree |-> r.tree, err |-> r.err]
    /\ UNCHANGED <<checkGot, rfRoots, rfLax, forrestFrame>>

NextForrest ==
    \/ rfRoots = <<>> /\ \E roots \in RootTables, lax \in BOOLEAN : NewRebuiltForrest(roots, lax)
    \/ \E treeID \in RfTreeIDs : RfRebuiltTreeCall(treeID)

(***************************************************************************)
(* The rebuilder's want callbacks.  The checker asks for an item of a      *)
(* tree; the callback looks in the tree's Items, then in its               *)
(* PotentialItems, and hands the roots of the leaves found to wantAugment. *)
(* A key is (ObjectID, Offset), the item type being the one asked for; an  *)
(* index entry is the leaf holding the item and the size scan.Sizes has    *)
(* for it.  A leaf is in tree.Leafs iff one of its roots is in tree.Roots. *)
(***************************************************************************)
CSUM_TREE_OBJECTID == 7
WantObjIDs == {1, 2}
WantLeafs == {1, 2}
WantRootAddrs == {3, 4}
WantOffsets == 0..MaxOff
RunSizes == 1..MaxRun
NoItem == [Node |-> NoNode, Size |-> 1]
WantItemPtrs == {NoItem} \cup [Node : WantLeafs, Size : RunSizes]

\* The keys of a tree asked for single items, and of one asked for ranges.
WantPointKeys == [ObjectID : WantObjIDs, Offset : {0, 1}]
WantRangeKeys == [ObjectID : {1}, Offset : WantOffsets]

\* No rebuilder made.
InitNoWant ==
    /\ wantIndex = <<>>
    /\ wantLeafRoots = <<>>
    /\ wantTreeRoots = {}
    /\ augmentQueue = <<>>
    /\ retryQueue = {}
    /\ wantCalls = <<>>
    /\ wantPanic = FALSE

\* A rebuilder over the index of some scan, its tree with some roots added.
InitWant(keys, sizes) ==
    /\ wantIndex \in [keys -> {NoItem} \cup [Node : WantLeafs, Size : sizes]]
    /\ wantLeafRoots \in [WantLeafs -> (SUBSET WantRootAddrs) \ {{}}]
    /\ wantTreeRoots \in SUBSET WantRootAddrs
    /\ augmentQueue = <<>>
    /\ retryQueue = {}
    /\ wantCalls = <<>>
    /\ wantPanic = FALSE

\* btrfsprim.Key.Compare
keyCompare(a, b) ==
    IF a.ObjectID < b.ObjectID THEN -1
    ELSE IF a.ObjectID > b.ObjectID THEN 1
    ELSE IF a.Offset < b.Offset THEN -1
    ELSE IF a.Offset > b.Offset THEN 1
    ELSE 0

\* Want.Key()
wantKeyOf(want) == [ObjectID |-> want.ObjectID, Offset |-> want.OffsetLow]

wantOffsetAny(objID) ==
    [OffsetType |-> "offsetAny", ObjectID |-> objID, OffsetLow |-> 0, OffsetHigh |-> 0]
wantOffsetExact(objID, off) ==
    [OffsetType |-> "offsetExact", ObjectID |-> objID, OffsetLow |-> off, OffsetHigh |-> 0]
wantOffsetRange(objID, low, high) ==
    [OffsetType |-> "offsetRange", ObjectID |-> objID, OffsetLow |-> low, OffsetHigh |-> high]

\* tree.Leafs holds the leaf: AddRoot attached it under one of its roots.
wantAttached(leaf) == wantLeafRoots[leaf] \cap wantTreeRoots # {}

\* The keys of PotentialItems and of Items.
potentialKeys == {k \in DOMAIN wantIndex : wantIndex[k].Node # NoNode}
itemsKeys == {k \in potentialKeys : wantAttached(wantIndex[k].Node)}

\* SortedMap.Subrange / Search: the keys on which rangeFn, given as the
\* function from the keys to its answers, returns 0.
wantSubrange(keys, rangeFn) == {k \in keys : rangeFn[k] = 0}

\* The rangeFn of _want, comparing with the offset of the item set to 0.
wantAnyCompare_KeepOffset(tgt, key) == keyCompare(tgt, key)

wantAnyCompare(tgt, key) == keyCompare(tgt, [key EXCEPT !.Offset = 0])

\* The rangeFn of _wantOff.
wantOffCompare(tgt, key) == keyCompare(tgt, key)

\* tree.LeafToRoots(leaf): it panics if the tree has a root of the leaf.
wantLeafToRoots(leaf) ==
    IF wantAttached(leaf) THEN [panic |-> TRUE, ret |-> {}]
    ELSE [panic |-> FALSE, ret |-> wantLeafRoots[leaf]]

hasAugment(queue, want) == \E i \in DOMAIN queue : queue[i].want = want
wantAugment(queue, want, choices) == Append(queue, [want |-> want, choices |-> choices])
enqueueRetry(queue, treeID) == queue \cup {treeID}

\* The end of _want and _wantOff: the item is not in Items.
wantInsert(want, found) ==
    IF hasAugment(augmentQueue, want)
    THEN UNCHANGED <<augmentQueue, wantPanic>>
    ELSE IF \E k \in found : wantLeafToRoots(wantIndex[k].Node).panic
    THEN wantPanic' = TRUE /\ UNCHANGED augmentQueue
    ELSE /\ augmentQueue' =
                wantAugment(augmentQueue, want,
                            UNION {wantLeafToRoots(wantIndex[k].Node).ret : k \in found})
         /\ UNCHANGED wantPanic

\* _want and _wantOff from the tree they got to their return.
wantLookup(treeID, err, want, have, found) ==
    /\ ~wantPanic
    /\ Len(wantCalls) < MaxWantCalls
    /\ wantCalls' = Append(wantCalls, [treeID |-> treeID, err |-> err, want |-> want])
    /\ IF err
       THEN /\ retryQueue' = enqueueRetry(retryQueue, treeID)
            /\ UNCHANGED <<augmentQueue, wantPanic>>
       ELSE /\ UNCHANGED retryQueue
            /\ IF have # {}
               THEN UNCHANGED <<augmentQueue, wantPanic>>
               ELSE wantInsert(want, found)
    /\ UNCHANGED <<wantIndex, wantLeafRoots, wantTreeRoots, wantFrame>>

\* Want(treeID, objID, typ); err: o.rebuilt.RebuiltTree returns an error.
Want(treeID, err, objID) ==
    LET want == wantOffsetAny(objID)
        tgt == wantKeyOf(want)
    IN  wantLookup(treeID, err, want,
                   wantSubrange(itemsKeys, [key \in itemsKeys |-> wantAnyCompare(tgt, key)]),
                   wantSubrange(potentialKeys,
                                [key \in potentialKeys |-> wantAnyCompare(tgt, key)]))

\* WantOff(treeID, objID, typ, off)
WantOff(treeID, err, objID, off) ==
    LET want == wantOffsetExact(objID, off)
        tgt == wantKeyOf(want)
    IN  wantLookup(treeID, err, want,
                   {k \in itemsKeys : k = tgt},
                   wantSubrange(potentialKeys,
                                [key \in potentialKeys |-> wantOffCompare(tgt, key)]))

NextWant ==
    \E err \in BOOLEAN, objID \in WantObjIDs :
        \/ Want(CSUM_TREE_OBJECTID, err, objID)
        \/ \E off \in {0, 1} : WantOff(CSUM_TREE_OBJECTID, err, objID, off)

\* A range function that answers 0 for the keys from min to max.
walkRangeCompare_MinMax(min, max, runKey) ==
    IF keyCompare(min, runKey) > 0 THEN 1
    ELSE IF keyCompare(max, runKey) < 0 THEN -1
    ELSE 0

\* _walkRange's rangeFn for the item key runKey, between the keys min and max.
walkRangeCompare(min, max, runKey) ==
    IF keyCompare(min, runKey) < 0 THEN 1
    ELSE IF keyCompare(max, runKey) > 0 THEN -1
    ELSE 0

\* _walkRange(items, objID, beg, end): the keys it calls fn with; their runs
\* are [Offset, Offset + Size).
runBegOf(k) == k.Offset
runEndOf(k) == k.Offset + wantIndex[k].Size
walkRange(keys, objID, beg, end) ==
    LET min == [ObjectID |-> objID, Offset |-> 0]
        max == [ObjectID |-> objID, Offset |-> end - 1]
    IN  {k \in wantSubrange(keys, [runKey \in keys |-> walkRangeCompare(min, max, runKey)]) :
            ~(runEndOf(k) <= beg)}

\* The keys of a set in ascending order; they are keys of one object.
RECURSIVE keysAscending(_)
keysAscending(keys) ==
    IF keys = {} THEN <<>>
    ELSE LET first == CHOOSE k \in keys : \A o \in keys : keyCompare(k, o) <= 0
         IN  <<first>> \o keysAscending(keys \ {first})

\* _wantRange, step 1, the function given to _walkRange: the gaps after the
\* run [runBeg, runEnd) is taken out of them.
gapsWithoutRun(gaps, runBeg, runEnd) ==
    LET overlappingGaps == {g \in gaps : ~(g.End <= runBeg) /\ ~(runEnd <= g.Beg)}
    IN  IF overlappingGaps = {} THEN gaps
        ELSE LET gapsBeg == SetMin({g.Beg : g \in overlappingGaps})
                 gapsEnd == SetMax({g.End : g \in overlappingGaps})
             IN  (gaps \ overlappingGaps)
                     \cup (IF gapsBeg < runBeg THEN {[Beg |-> gapsBeg, End |-> runBeg]} ELSE {})
                     \cup (IF gapsEnd > runEnd THEN {[Beg |-> runEnd, End |-> gapsEnd]} ELSE {})

RECURSIVE gapsWithoutRuns(_, _)
gapsWithoutRuns(gaps, runs) ==
    IF runs = <<>> THEN gaps
    ELSE gapsWithoutRuns(gapsWithoutRun(gaps, runBegOf(Head(runs)), runEndOf(Head(runs))),
                         Tail(runs))

\* _wantRange, step 2, the function given to _walkRange for one gap;
\* st: last, the queue and whether LeafToRoots panicked.
fillGapRun(objID, gap, st, k) ==
    LET got == wantLeafToRoots(wantIndex[k].Node)
        logged == IF st.last < runBegOf(k)
                  THEN wantAugment(st.queue, wantOffsetRange(objID, st.last, runBegOf(k)), {})
                  ELSE st.queue
    IN  IF got.panic THEN [st EXCEPT !.queue = logged, !.panic = TRUE]
        ELSE [last |-> runEndOf(k),
              queue |-> wantAugment(logged, wantOffsetRange(objID, gap.Beg, gap.End), got.ret),
              panic |-> FALSE]

RECURSIVE fillGapRuns(_, _, _, _)
fillGapRuns(objID, gap, st, runs) ==
    IF st.panic \/ runs = <<>> THEN st
    ELSE fillGapRuns(objID, gap, fillGapRun(objID, gap, st, Head(runs)), Tail(runs))

\* _wantRange, step 2, for one gap: the queue after it.
fillGap(objID, gap, queue) ==
    LET st == fillGapRuns(objID, gap, [last |-> gap.Beg, queue |-> queue, panic |-> FALSE],
                          keysAscending(walkRange(potentialKeys, objID, gap.Beg, gap.End)))
    IN  IF ~st.panic /\ st.last < gap.End
        THEN [st EXCEPT !.queue = wantAugment(st.queue,
                                              wantOffsetRange(objID, st.last, gap.End), {})]
        ELSE st

RECURSIVE fillGaps(_, _, _)
fillGaps(objID, gaps, st) ==
    IF st.panic \/ gaps = {} THEN st
    ELSE LET gap == CHOOSE g \in gaps : \A o \in gaps : g.Beg <= o.Beg
         IN  fillGaps(objID, gaps \ {gap}, fillGap(objID, gap, st.queue))

\* _wantRange(treeID, objID, typ, beg, end), as WantFileExt and WantCSum
\* call it; err: o.rebuilt.RebuiltTree returns an error.
WantRange(treeID, err, objID, beg, end) ==
    /\ ~wantPanic
    /\ wantCalls = <<>>
    /\ wantCalls' = <<[treeID |-> treeID, err |-> err, want |-> wantOffsetRange(objID, beg, end)]>>
    /\ IF err
       THEN /\ retryQueue' = enqueueRetry(retryQueue, treeID)
            /\ UNCHANGED <<augmentQueue, wantPanic>>
       ELSE LET gaps == gapsWithoutRuns({[Beg |-> beg, End |-> end]},
                                        keysAscending(walkRange(itemsKeys, objID, beg, end)))
                st == fillGaps(objID, gaps, [queue |-> augmentQueue, panic |-> FALSE])
            IN  /\ augmentQueue' = st.queue
                /\ wantPanic' = st.panic
                /\ UNCHANGED retryQueue
    /\ UNCHANGED <<wantIndex, wantLeafRoots, wantTreeRoots, wantFrame>>

NextWantRange ==
    \E err \in BOOLEAN, beg \in WantOffsets, end \in 1..(MaxOff + 1) :
        beg < end /\ WantRange(CSUM_TREE_OBJECTID, err, 1, beg, end)

Idle == [pc |-> "idle"]
NotObserved == [laddr |-> -1]

TypeOK ==
    /\ id2pv \subseteq DeviceIDs
    /\ DOMAIN physical2logical = id2pv
    /\ paranoid \in BOOLEAN
    /\ allOK \in BOOLEAN
    /\ ncalls \in 0..MaxCalls
    /\ rewrite.pc \in {"idle", "chunks", "devexts"}

InitEngine ==
    /\ id2pv = {}
    /\ logical2physical = {}
    /\ physical2logical = [d \in {} |-> {}]
    /\ lastResult = [op |-> "init", err |-> ""]
    /\ allOK = TRUE
    /\ ncalls = 0
    /\ rewrite = Idle
    /\ observed = NotObserved
    /\ readGot = NotRead
    /\ idxAt = "none"
    /\ idxRootErr = FALSE
    /\ idxItems = {}
    /\ idxErrors = {}
    /\ searchGot = NotSearched
    /\ checkGot = NotChecked
    /\ rfRoots = <<>>
    /\ rfLax = FALSE
    /\ rfTrees = <<>>
    /\ rfGot = <<>>
    /\ InitCheckLoop
    /\ InitWalk
    /\ InitCancel
    /\ InitTreeMu

\* The process runs without PARANOID in its environment.
Init == InitEngine /\ paranoid = FALSE /\ InitCache /\ InitNoTree /\ InitOrt
    /\ InitNoWant

\* The process runs with PARANOID set.
InitParanoid == InitEngine /\ paranoid = TRUE /\ InitCache /\ InitNoTree /\ InitOrt
    /\ InitNoWant

AddPhysicalVolume(id) ==
    /\ rewrite = Idle
    /\ IF id \in id2pv
       THEN /\ lastResult' = [op |-> "AddPhysicalVolume", err |-> "AlreadyExists"]
            /\ UNCHANGED <<id2pv, physical2logical>>
       ELSE /\ id2pv' = id2pv \cup {id}
            /\ physical2logical' =
                   [d \in id2pv \cup {id} |-> IF d = id THEN {} ELSE physical2logical[d]]
            /\ lastResult' = [op |-> "AddPhysicalVolume", err |-> ""]
    /\ UNCHANGED <<logical2physical, paranoid, allOK, ncalls, rewrite, observed, lvFrame>>

\* What AddMapping returns once it has rewritten the trees into l2p and p2l.
addMappingReturn(plan, l2p, p2l) ==
    IF plan.err # "" THEN plan.err
    ELSE IF paranoid THEN fsck(id2pv, l2p, p2l)
    ELSE ""

AddMapping(m) ==
    /\ rewrite = Idle
    /\ ncalls < MaxCalls
    /\ ncalls' = ncalls + 1
    /\ LET plan == addMappingPlan(id2pv, logical2physical, physical2logical, m, FALSE)
           l2p == addMappingChunks(logical2physical, plan)
           p2l == [physical2logical EXCEPT
                      ![m.Dev] = addMappingDevexts(physical2logical[m.Dev], plan)]
       IN  IF plan.write
           THEN /\ logical2physical' = l2p
                /\ physical2logical' = p2l
                /\ lastResult' = [op |-> "AddMapping", err |-> addMappingReturn(plan, l2p, p2l)]
           ELSE /\ UNCHANGED <<logical2physical, physical2logical>>
                /\ lastResult' = [op |-> "AddMapping", err |-> plan.err]
    /\ allOK' = (allOK /\ lastResult'.err = "")
    /\ UNCHANGED <<id2pv, paranoid, rewrite, observed, lvFrame>>

Next ==
    \/ \E id \in DeviceIDs : AddPhysicalVolume(id)
    \/ \E m \in Mappings : AddMapping(m)

Spec == Init /\ [][Next]_vars

SpecParanoid == InitParanoid /\ [][Next]_vars

\* ClearMappings drops both indexes; the next init() gives every registered
\* device an empty dev-extent tree again, before anything reads them.
ClearMappings ==
    /\ rewrite = Idle
    /\ logical2physical' = {}
    /\ physical2logical' = [d \in id2pv |-> {}]
    /\ lastResult' = [op |-> "ClearMappings", err |-> ""]
    /\ UNCHANGED <<id2pv, paranoid, allOK, ncalls, rewrite, observed, lvFrame>>

NextClear ==
    \/ Next
    \/ ClearMappings

SpecClear == Init /\ [][NextClear]_vars

\* CouldAddMapping: addMapping as a dry run, which returns nil after the
\* cross-check, before the rewrite and before fsck.
CouldAddMapping(m) ==
    /\ rewrite = Idle
    /\ LET plan == addMappingPlan(id2pv, logical2physical, physical2logical, m, TRUE)
       IN  /\ IF plan.write
              THEN /\ logical2physical' = addMappingChunks(logical2physical, plan)
                   /\ physical2logical' =
                          [physical2logical EXCEPT
                              ![m.Dev] = addMappingDevexts(physical2logical[m.Dev], plan)]
              ELSE UNCHANGED <<logical2physical, physical2logical>>
           /\ lastResult' = [op |-> "CouldAddMapping",
                             err |-> IF plan.err = "" THEN "" ELSE "false"]
    /\ UNCHANGED <<id2pv, paranoid, allOK, ncalls, rewrite, observed, lvFrame>>

\* The engine with CouldAddMapping among its calls, in a process with or
\* without PARANOID in its environment.
InitDryRun == InitEngine /\ paranoid \in BOOLEAN /\ InitCache /\ InitNoTree /\ InitOrt
    /\ InitNoWant

NextDryRun ==
    \/ \E id \in DeviceIDs : AddPhysicalVolume(id)
    \/ \E m \in Mappings : ncalls < MaxDryRunCalls /\ AddMapping(m)
    \/ \E m \in Mappings : CouldAddMapping(m)

SpecDryRun == InitDryRun /\ [][NextDryRun]_vars

\* ReadAt(dat, laddr) with len(dat) = n, over devices that hold data.
ReadAt(data, n, laddr) ==
    /\ readGot = NotRead
    /\ \E out \in readAtFrom(logical2physical, id2pv, data, n, laddr, 0, <<>>) :
           readGot' = [data |-> data, len |-> n, laddr |-> laddr,
                       n |-> out.n, err |-> out.err, bytes |-> out.bytes]
    /\ UNCHANGED readFrame

\* A process that assembles the volume and then reads from it.
NextRead ==
    \/ \E id \in DeviceIDs : readGot = NotRead /\ AddPhysicalVolume(id)
    \/ \E m \in Mappings : readGot = NotRead /\ ncalls < MaxReadCalls /\ AddMapping(m)
    \/ \E data \in DevContents, n \in ReadLens, laddr \in Addrs : ReadAt(data, n, laddr)

SpecRead == Init /\ [][NextRead]_vars

(***************************************************************************)
(* The engine under concurrent callers.  LogicalVolume holds no lock, so a *)
(* Resolve in another goroutine runs between any two tree operations of    *)
(* addMapping's rewrite (each tree operation is taken as one step).        *)
(***************************************************************************)
\* addMapping up to its first tree write.
RaceAddMappingCall(m) ==
    /\ rewrite = Idle
    /\ ncalls < MaxRaceCalls
    /\ ncalls' = ncalls + 1
    /\ LET plan == addMappingPlan(id2pv, logical2physical, physical2logical, m, FALSE)
       IN  IF plan.write
           THEN /\ rewrite' = [pc |-> "chunks", m |-> m, plan |-> plan,
                               todo |-> plan.logicalOverlaps,
                               before |-> logical2physical,
                               after |-> addMappingChunks(logical2physical, plan)]
                /\ UNCHANGED <<lastResult, allOK>>
           ELSE /\ lastResult' = [op |-> "AddMapping", err |-> plan.err]
                /\ allOK' = (allOK /\ plan.err = "")
                /\ UNCHANGED rewrite
    /\ UNCHANGED <<id2pv, logical2physical, physical2logical, paranoid, observed, lvFrame>>

\* lv.logical2physical.Delete(...) of one overlapped chunk
RaceDeleteChunk ==
    /\ rewrite.pc = "chunks"
    /\ rewrite.todo # <<>>
    /\ logical2physical' = logical2physical \ {Head(rewrite.todo)}
    /\ rewrite' = [rewrite EXCEPT !.todo = Tail(rewrite.todo)]
    /\ UNCHANGED <<id2pv, physical2logical, paranoid, lastResult, allOK, ncalls, observed,
                   lvFrame>>

\* lv.logical2physical.Insert(newChunk)
RaceInsertChunk ==
    /\ rewrite.pc = "chunks"
    /\ rewrite.todo = <<>>
    /\ logical2physical' = chunkInsert(logical2physical, rewrite.plan.newChunk)
    /\ rewrite' = [rewrite EXCEPT !.pc = "devexts", !.todo = rewrite.plan.physicalOverlaps]
    /\ UNCHANGED <<id2pv, physical2logical, paranoid, lastResult, allOK, ncalls, observed,
                   lvFrame>>

\* lv.physical2logical[dev].Delete(...) of one overlapped dev-extent
RaceDeleteDevext ==
    /\ rewrite.pc = "devexts"
    /\ rewrite.todo # <<>>
    /\ physical2logical' = [physical2logical EXCEPT
           ![rewrite.m.Dev] = physical2logical[rewrite.m.Dev] \ {Head(rewrite.todo)}]
    /\ rewrite' = [rewrite EXCEPT !.todo = Tail(rewrite.todo)]
    /\ UNCHANGED <<id2pv, logical2physical, paranoid, lastResult, allOK, ncalls, observed,
                   lvFrame>>

\* lv.physical2logical[dev].Insert(newExt), the paranoid check, and the return
RaceInsertDevext ==
    /\ rewrite.pc = "devexts"
    /\ rewrite.todo = <<>>
    /\ physical2logical' = [physical2logical EXCEPT
           ![rewrite.m.Dev] = devextInsert(physical2logical[rewrite.m.Dev],
                                           rewrite.plan.newExt)]
    /\ lastResult' = [op |-> "AddMapping",
                      err |-> addMappingReturn(rewrite.plan, logical2physical,
                                               physical2logical')]
    /\ allOK' = (allOK /\ lastResult'.err = "")
    /\ rewrite' = Idle
    /\ UNCHANGED <<id2pv, logical2physical, paranoid, ncalls, observed, lvFrame>>

\* Resolve(laddr) in another goroutine, with whether an AddMapping whose union
\* holds laddr is in flight, and what Resolve returns before and after it.
RaceResolve(laddr) ==
    /\ observed' =
           [laddr |-> laddr,
            concurrent |-> (rewrite # Idle
                            /\ chunkCmpRange([LAddr |-> laddr, Size |-> 1],
                                             rewrite.plan.newChunk) = 0),
            got |-> Resolve(logical2physical, laddr),
            before |-> Resolve(IF rewrite = Idle THEN logical2physical
                               ELSE rewrite.before, laddr),
            after |-> Resolve(IF rewrite = Idle THEN logical2physical
                              ELSE rewrite.after, laddr)]
    /\ UNCHANGED <<id2pv, logical2physical, physical2logical, paranoid, lastResult,
                   allOK, ncalls, rewrite, lvFrame>>

NextRace ==
    \/ \E id \in DeviceIDs : AddPhysicalVolume(id)
    \/ \E m \in Mappings : RaceAddMappingCall(m)
    \/ RaceDeleteChunk
    \/ RaceInsertChunk
    \/ RaceDeleteDevext
    \/ RaceInsertDevext
    \/ \E laddr \in 0..(MaxAddr + MaxSize - 1) : RaceResolve(laddr)

SpecRace == Init /\ [][NextRace]_vars

SpecCache == Init /\ [][NextCache]_vars

\* The cache under goroutines that only call Acquire and Release.
NextAcqRel ==
    \/ \E t \in Threads, k \in Keys : AcquireCall(t, k)
    \/ \E t \in Threads : AcquireResume(t)
    \/ \E t \in Threads, i \in 1..MaxHeld : ReleaseCall(t, i)

SpecAcqRel == Init /\ [][NextAcqRel]_vars

\* The same, with the scheduler running every goroutine that has been handed
\* the lock by a closed channel; when a goroutine calls Acquire or Release is
\* up to the program.
SpecWalk == Init /\ [][NextWalk]_vars

\* One TreeCheckOwner call; a call that is in its loop makes its next iteration.
SpecCheckLoop ==
    /\ Init /\ [][NextCheckLoop]_vars
    /\ WF_vars(\E uuidRootErr \in BOOLEAN, item \in UUIDItems, parent \in TreeFacts :
                   CheckOwnerIteration(uuidRootErr, item, parent))

SpecAcqRelFair == SpecAcqRel /\ \A t \in Threads : WF_vars(AcquireResume(t))

\* A rebuilt tree over every graph of the bounds.
InitTreeSpec == InitEngine /\ paranoid = FALSE /\ InitCache /\ InitTree /\ InitOrt
    /\ InitNoWant

SpecTree == InitTreeSpec /\ [][NextTree]_vars

SpecAttach == InitTreeSpec /\ [][NextAttach]_vars

\* One AddRoot call and concurrent readers on a tree of any graph.
SpecTreeRace == InitTreeSpec /\ [][NextTreeRace]_vars

\* AddRoot calls on a tree of any graph, under a ctx that may be cancelled.
SpecCancel == InitTreeSpec /\ [][NextCancel]_vars

\* Want and WantOff callbacks on a tree of any index.
InitWantSpec ==
    /\ InitEngine /\ paranoid = FALSE /\ InitCache /\ InitNoTree /\ InitOrt
    /\ InitWant(WantPointKeys, {1})

SpecWant == InitWantSpec /\ [][NextWant]_vars

\* One range want on a tree of any index of runs.
InitWantRangeSpec ==
    /\ InitEngine /\ paranoid = FALSE /\ InitCache /\ InitNoTree /\ InitOrt
    /\ InitWant(WantRangeKeys, RunSizes)

SpecWantRange == InitWantRangeSpec /\ [][NextWantRange]_vars

\* The old-rebuilt forrest under concurrent callers.
InitOrtSpec == InitEngine /\ paranoid = FALSE /\ InitCache /\ InitNoTree /\ InitOrtBroken
    /\ InitNoWant

SpecOrt == InitOrtSpec /\ [][NextOrt]_vars

\* One tree of the OldRebuiltForrest is indexed and then searched.
SpecSearch == Init /\ [][NextSearch]_vars

\* Callers check owners against filesystems of every shape.
SpecCheckOwner == Init /\ [][NextCheckOwner]_vars

\* A RebuiltForrest is made over some root items and asked for its trees.
SpecForrest == Init /\ [][NextForrest]_vars

(***************************************************************************)
(* Properties of the mapping engine.                                       *)
(***************************************************************************)
RangesDisjoint(b1, s1, b2, s2) == b1 + s1 <= b2 \/ b2 + s2 <= b1

\* C1: after any sequence of AddPhysicalVolume and AddMapping calls, failed or
\* not, any two distinct chunk mappings have disjoint logical ranges
\* [LAddr, LAddr+Size).
C1_ChunksDisjoint ==
    \A a, b \in logical2physical :
        a # b => RangesDisjoint(a.LAddr, a.Size, b.LAddr, b.Size)

\* Two chunks that touch are held, and a third AddMapping, which overlapped
\* one of them, was refused.
C1_Witness ==
    /\ \E a, b \in logical2physical : a.LAddr + a.Size = b.LAddr
    /\ lastResult = [op |-> "AddMapping", err |-> "SizeLockedConflict"]

\* C2: after any sequence of AddPhysicalVolume and AddMapping calls, any two
\* distinct dev-extent mappings of one device have disjoint physical ranges
\* [PAddr, PAddr+Size).
C2_DevextsDisjoint ==
    \A d \in id2pv : \A a, b \in physical2logical[d] :
        a # b => RangesDisjoint(a.PAddr, a.Size, b.PAddr, b.Size)

\* Three accepted mappings have left two dev-extents in all, which touch: one
\* of the calls merged into an existing dev-extent.
C2_Witness ==
    /\ allOK /\ ncalls = 3
    /\ \E d \in id2pv :
           /\ \E a, b \in physical2logical[d] : a.PAddr + a.Size = b.PAddr
           /\ Cardinality(physical2logical[d]) = 2
           /\ \A d2 \in id2pv \ {d} : physical2logical[d2] = {}

\* C3: after successful AddMapping calls only, every stripe S of every chunk C
\* lies inside a dev-extent of S's device, [S, S+C.Size) within
\* [PAddr, PAddr+Size), whose LAddr back-projected to S is C.LAddr.
C3_StripesBackedByDevexts ==
    allOK =>
        \A c \in logical2physical : \A s \in c.PAddrs :
            /\ s.Dev \in id2pv
            /\ \E e \in physical2logical[s.Dev] :
                   /\ e.PAddr <= s.Addr
                   /\ s.Addr + c.Size <= e.PAddr + e.Size
                   /\ e.LAddr + (s.Addr - e.PAddr) = c.LAddr

\* The dev-extent tree fsck compares device d's tree with: the rebuilt one.
C4_Rebuilt(d) == fsckRebuild(logical2physical, d)

\* C4: after any sequence of AddMapping calls, the dev-extent index rebuilt
\* from the chunk index, one dev-extent per stripe, is the engine's index for
\* every registered device, and fsck reports no skew.
C4_FsckReproducesDevexts ==
    ncalls > 0 =>
        /\ \A d \in id2pv : physical2logical[d] = C4_Rebuilt(d)
        /\ fsck(id2pv, logical2physical, physical2logical) = ""
        /\ lastResult.err # "FsckSkew"

\* C6: a Resolve(laddr) concurrent with an AddMapping whose range overlaps
\* laddr returns what it returns before that AddMapping or what it returns
\* after it, never the result for a state in between.
C6_ResolveNeverTorn ==
    (observed # NotObserved /\ observed.concurrent) =>
        observed.got \in {observed.before, observed.after}

C5_Errors ==
    {"NoSuchDevice", "SizeLockedConflict", "FlagsConflict", "DevExtConflict",
     "StripesNotAllowed"}

\* C5: an AddMapping that returns one of the errors "no such device",
\* size-lock conflict, flags conflict, dev-extent conflict or "replication not
\* admitted by the flags" leaves the chunk index and every dev-extent index
\* as they were before the call.
C5_ErrorLeavesIndexes ==
    [][(lastResult'.op = "AddMapping" /\ lastResult'.err \in C5_Errors)
           => (logical2physical' = logical2physical
               /\ physical2logical' = physical2logical)]_vars

\* An AddMapping was refused for the replication its flags do not admit while
\* the engine held mappings.
C5_Witness ==
    /\ lastResult = [op |-> "AddMapping", err |-> "StripesNotAllowed"]
    /\ logical2physical # {}

(***************************************************************************)
(* Properties of the cache.                                                *)
(***************************************************************************)
\* The goroutines a step wakes from unlockAndWaitForDel and from waitForAvail.
WokenDeleters == deleted' \ deleted
WokenAcquirers == avail' \ avail

\* A Release completes a pending Delete of entry e.
CompletesDelete(e) == entries[e].del # {} /\ entries'[e].del = {}

\* C7: a Delete(k) of a pinned entry stays blocked while the entry is pinned;
\* it is let go by the step that takes the pin count to zero, which also
\* removes the entry from the key map and stores it in the unused list; it
\* returns only once let go.  A Delete(k) of an unpinned entry evicts it in
\* the call itself and returns.
C7_DeleteWaitsForUnpin ==
    [][/\ \A t \in Threads :
            /\ (pc'[t].at = "waitForDel" /\ t \notin deleted') =>
                   \E e \in EntryIds : t \in entries'[e].del /\ entries'[e].refs > 0
            /\ t \in WokenDeleters =>
                   \E e \in EntryIds :
                       /\ t \in entries[e].del
                       /\ entries[e].refs = 1 /\ entries'[e].refs = 0
                       /\ byName'[pc[t].key] = NoEntry
                       /\ ListHas(unused', e)
            /\ (pc[t].at = "waitForDel" /\ pc'[t].at # "waitForDel") => t \in deleted
       /\ \A t \in Threads, k \in Keys :
            (DeleteCall(t, k) /\ byName[k] # NoEntry /\ entries[byName[k]].refs = 0) =>
                /\ byName'[k] = NoEntry
                /\ ListHas(unused', byName[k]) /\ ~ListHas(evictable', byName[k])
                /\ pc'[t].at = "idle"
      ]_vars

\* A Delete has been let go by the last Release while another goroutine has
\* since pinned an entry again.
C7_Witness ==
    /\ deleted # {}
    /\ \E t \in deleted : pc[t].at = "waitForDel" /\ byName[pc[t].key] = NoEntry
    /\ \E e \in EntryIds : entries[e].refs > 0

\* C8 as stated: the Release that completes a pending Delete wakes exactly
\* one blocked deleter, a deleter of that entry, and no goroutine blocked in
\* Acquire.
C8_WakesExactlyOneDeleter ==
    [][\A e \in EntryIds : CompletesDelete(e) =>
          /\ Cardinality(WokenDeleters) = 1
          /\ WokenDeleters \subseteq entries[e].del
          /\ WokenAcquirers = {}
      ]_vars

\* C8 as amended: the Release that completes a pending Delete wakes every
\* deleter blocked on that entry's key and no other deleter, and wakes the
\* oldest goroutine blocked in Acquire, if there is one, and no other.
C8_WakesDeletersOfKey ==
    [][\A e \in EntryIds : CompletesDelete(e) =>
          /\ WokenDeleters = entries[e].del
          /\ \A t \in WokenDeleters :
                 pc[t] = [at |-> "waitForDel", key |-> entries[e].key]
          /\ \A t \in Threads \ WokenDeleters :
                 (pc[t].at = "waitForDel" /\ t \notin deleted) => t \notin deleted'
          /\ WokenAcquirers = IF waiters = <<>> THEN {} ELSE {ListOldest(waiters)}
      ]_vars

\* One Release has let go a deleter and woken a goroutine blocked in Acquire.
C8_Witness ==
    /\ deleted # {} /\ avail # {}
    /\ \A t \in deleted \cup avail : pc[t].at \in {"waitForDel", "waitForAvail"}

\* C9: an Acquire of an absent key, when no entry is unused or evictable,
\* blocks at the tail of the waiter queue without getting a handle; a step
\* wakes a blocked Acquire only by taking an entry's pin count to zero, and
\* then it wakes one, the oldest in the queue; while the lock is free no
\* Acquire is left blocked with an entry available.
C9_AcquireBlocksFifo ==
    [][/\ \A t \in Threads, k \in Keys :
            (AcquireCall(t, k) /\ byName[k] = NoEntry /\ ~Available) =>
                /\ pc'[t] = [at |-> "waitForAvail", key |-> k]
                /\ held'[t] = held[t]
                /\ waiters' = Append(waiters, t)
       /\ WokenAcquirers # {} =>
            /\ WokenAcquirers = {Head(waiters)}
            /\ waiters' = Tail(waiters)
            /\ \E e \in EntryIds : entries[e].refs = 1 /\ entries'[e].refs = 0
       /\ \A t \in Threads :
            (pc[t].at = "waitForAvail" /\ pc'[t].at # "waitForAvail") => t \in avail
       /\ (~mu' /\ waiters' # <<>>) => (unused' = <<>> /\ evictable' = <<>>)
      ]_vars

\* With every entry pinned, two Acquires blocked one after the other and one
\* of them has been woken by a Release.
C9_Witness ==
    /\ avail # {} /\ waiters # <<>>
    /\ \A t \in avail : pc[t].at = "waitForAvail"

\* C10: while a goroutine holds a handle from Acquire(k), the handle's entry
\* still holds k, is what the cache maps k to, is pinned, and is in neither
\* the unused nor the evictable list.
C10_PinnedEntryStays ==
    \A t \in Threads : \A i \in DOMAIN held[t] :
        LET h == held[t][i]
        IN  /\ entries[h.entry].key = h.key
            /\ byName[h.key] = h.entry
            /\ entries[h.entry].refs > 0
            /\ ~ListHas(unused, h.entry)
            /\ ~ListHas(evictable, h.entry)

(***************************************************************************)
(* Properties of the rebuilt trees.                                        *)
(***************************************************************************)
\* The nodes reached from the nodes of S along key pointers whose source and
\* target both pass the tree's owner check.
RECURSIVE OwnerOKClosure(_)
OwnerOKClosure(S) ==
    LET next == S \cup {kp[2] : kp \in {e \in graph.Edges :
                           /\ e[1] \in S
                           /\ nodeOwnerOK(rebuiltTree, graph, e[1])
                           /\ nodeOwnerOK(rebuiltTree, graph, e[2])}}
    IN  IF next = S THEN S ELSE OwnerOKClosure(next)

ReachableLeafs(roots) ==
    {n \in OwnerOKClosure({r \in roots : nodeOwnerOK(rebuiltTree, graph, r)}) :
        graph.Nodes[n].Level = 0}

\* C11: after any AddRoot calls, the tree's leafs are exactly the level-0
\* nodes reachable from one of its roots along key pointers whose source and
\* target are both owner-OK for the tree.
C11_LeafsAreReachable == Leafs = ReachableLeafs(Roots)

\* Both indexes have been built, and neither build panicked.
BothIndexed ==
    /\ incItems.Leafs # {} /\ allItems.Leafs # {}
    /\ ~incItems.panic /\ ~allItems.panic

\* C12 as stated: every key of Items(T) is a key of PotentialItems(T), and
\* both map it to the same (leaf, slot).
C12_SameItemPtr ==
    BothIndexed =>
        \A k \in DOMAIN incItems.Items :
            k \in DOMAIN allItems.Items /\ allItems.Items[k] = incItems.Items[k]

\* Leaf a is preferred to leaf b: smaller COW distance of its owner from the
\* tree, or the same distance and a larger generation.
PreferredLeaf(a, b) ==
    LET da == COWDistance(rebuiltTree, graph.Nodes[a].Owner).dist
        db == COWDistance(rebuiltTree, graph.Nodes[b].Owner).dist
    IN  da < db \/ (da = db /\ graph.Nodes[a].Generation > graph.Nodes[b].Generation)

\* C12 as amended: every key of Items(T) is a key of PotentialItems(T); the
\* two map it to the same (leaf, slot) unless PotentialItems has it from a
\* leaf that Items has not indexed and that is preferred to the leaf Items
\* has it from.
C12_PotentialItemNotWorse ==
    BothIndexed =>
        \A k \in DOMAIN incItems.Items :
            /\ k \in DOMAIN allItems.Items
            /\ \/ allItems.Items[k] = incItems.Items[k]
               \/ /\ allItems.Items[k].Node \notin incItems.Leafs
                  /\ PreferredLeaf(allItems.Items[k].Node, incItems.Items[k].Node)

\* Items and PotentialItems have both been called and disagree on a key.
C12_Witness ==
    /\ BothIndexed
    /\ \E k \in DOMAIN incItems.Items :
           k \in DOMAIN allItems.Items /\ allItems.Items[k] # incItems.Items[k]

\* Owner-OK as the specification words it: owner is the tree, or an ancestor
\* reached with gen <= ParentGen at every step up.
RECURSIVE OwnerOKUpTo(_, _, _)
OwnerOKUpTo(t, owner, gen) ==
    \/ owner = t
    \/ /\ TreeParent(t) # NoTree
       /\ gen <= TreeParentGen(t)
       /\ OwnerOKUpTo(TreeParent(t), owner, gen)

\* C13: isOwnerOK accepts a node exactly when its owner is the tree, at any
\* generation, or an ancestor of the tree reached with the node's generation
\* less than or equal to ParentGen at every step; a generation equal to
\* ParentGen is accepted.
C13_OwnerOKIffAncestorUpToParentGen ==
    \A n \in DOMAIN graph.Nodes :
        nodeOwnerOK(rebuiltTree, graph, n) =
            OwnerOKUpTo(rebuiltTree, graph.Nodes[n].Owner, graph.Nodes[n].Generation)

(***************************************************************************)
(* Properties of the old-rebuilt forrest.                                  *)
(***************************************************************************)
\* C14: for each tree id rawTreeWalk runs at most once, however many
\* goroutines ask for the tree first; a cached entry never changes; every
\* caller has got the cached entry; and a call that finds an entry, with or
\* without RootErr, returns it without another walk.
C14_IndexedOnce ==
    [][/\ \A id \in TreeIDs :
            /\ walks'[id] <= 1
            /\ trees[id] # NotCached => trees'[id] = trees[id]
       /\ \A t \in Threads :
            ortGot'[t] # NotCached => ortGot'[t] = trees'[ortGot'[t].ID]
       /\ \A t \in Threads, id \in TreeIDs :
            (RebuiltTreeCall(t, id) /\ trees[id] # NotCached) =>
                ortGot'[t] = trees[id] /\ walks' = walks /\ trees' = trees
      ]_vars

\* Two goroutines asked for one tree while it was being indexed, and both
\* have the one entry, which carries RootErr.
C14_Witness ==
    \E t1, t2 \in Threads :
        /\ t1 # t2
        /\ ortGot[t1] # NotCached /\ ortGot[t1].RootErr
        /\ ortGot[t2] = ortGot[t1]
        /\ walks[ortGot[t1].ID] = 1

(***************************************************************************)
(* Further properties of the mapping engine.                               *)
(***************************************************************************)
\* What addMapping would do with m in the current state.
PlanOf(m) == addMappingPlan(id2pv, logical2physical, physical2logical, m, FALSE)

\* The indexes after addMapping has carried out plan for a mapping on dev.
ChunksAfter(l2p, plan) == IF plan.write THEN addMappingChunks(l2p, plan) ELSE l2p
DevextsAfter(p2l, dev, plan) ==
    IF plan.write THEN [p2l EXCEPT ![dev] = addMappingDevexts(p2l[dev], plan)] ELSE p2l

MappingExt(m) == [PAddr |-> m.PAddr, LAddr |-> m.LAddr, Size |-> m.Size]

\* m's dev-extent overlaps a dev-extent of its device that puts some physical
\* byte at another logical address than m does.
DisagreesWithDevext(m) ==
    /\ m.Dev \in id2pv
    /\ \E e \in physical2logical[m.Dev] :
           /\ devextCmpRange(MappingExt(m), e) = 0
           /\ e.LAddr - e.PAddr # m.LAddr - m.PAddr

\* C15: in every state, an AddMapping whose dev-extent overlaps an existing
\* dev-extent of the same device that implies another logical address for
\* the same physical byte fails with the dev-extent conflict error, unless
\* the size-lock or flags check of the unions has already failed it.
C15_DevextConflictReported ==
    \A m \in Mappings :
        DisagreesWithDevext(m) =>
            PlanOf(m).err \in {"DevExtConflict", "SizeLockedConflict", "FlagsConflict"}

\* The size of the hull of a set of [beg, beg+size) ranges.
HullSize(begs, ends) == SetMax(ends) - SetMin(begs)

\* Some logical contributor of AddMapping(m), m or a chunk it overlaps, is
\* size-locked at another size than the union's.
ChunkSizeLockBroken(m) ==
    LET members == {c \in logical2physical : chunkCmpRange(m, c) = 0}
                       \cup {[LAddr |-> m.LAddr, Size |-> m.Size, SizeLocked |-> m.SizeLocked]}
        size == HullSize({c.LAddr : c \in members}, {c.LAddr + c.Size : c \in members})
    IN  \E c \in members : c.SizeLocked /\ c.Size # size

\* The same for the physical contributors, m and the dev-extents it overlaps.
DevextSizeLockBroken(m) ==
    LET members == {e \in physical2logical[m.Dev] : devextCmpRange(MappingExt(m), e) = 0}
                       \cup {[PAddr |-> m.PAddr, Size |-> m.Size, SizeLocked |-> m.SizeLocked]}
        size == HullSize({e.PAddr : e \in members}, {e.PAddr + e.Size : e \in members})
    IN  \E e \in members : e.SizeLocked /\ e.Size # size

AddsStripe(plan) ==
    Len(plan.physicalOverlaps) <
        Cardinality(UNION {{<<c, st>> : st \in c.PAddrs} :
                              c \in SeqToSet(plan.logicalOverlaps)})

\* C17 as stated: in every state, such an AddMapping succeeds only if the
\* flags of the union have a RAID/DUP bit set.
C17_StripeNeedsRaidBit ==
    \A m \in Mappings :
        m.Dev \in id2pv =>
            LET plan == PlanOf(m)
            IN  (AddsStripe(plan) /\ plan.err = "") => HasRaidBits(plan.newChunk.Flags)

\* C17 as amended: in every state, such an AddMapping succeeds only if the
\* flags of the union are absent or have a RAID/DUP bit set; with flags
\* present and no such bit it returns an error and writes nothing.
C17_StripeNeedsRaidBitOrNoFlags ==
    \A m \in Mappings :
        m.Dev \in id2pv =>
            LET plan == PlanOf(m)
            IN  AddsStripe(plan) =>
                    /\ plan.err = "" =>
                           plan.newChunk.Flags = NoFlags \/ HasRaidBits(plan.newChunk.Flags)
                    /\ (plan.newChunk.Flags # NoFlags /\ ~HasRaidBits(plan.newChunk.Flags)) =>
                           plan.err # "" /\ ~plan.write

\* A second stripe has been added to a chunk without flags, and a second
\* stripe with flags that have no RAID/DUP bit is refused.
C17_Witness ==
    /\ lastResult = [op |-> "AddMapping", err |-> ""]
    /\ \E c \in logical2physical : Cardinality(c.PAddrs) >= 2 /\ c.Flags = NoFlags
    /\ \E m \in Mappings :
           /\ m.Dev \in id2pv
           /\ AddsStripe(PlanOf(m))
           /\ PlanOf(m).err = "StripesNotAllowed"

\* C18: in every state and for every mapping m, if AddMapping(m) succeeds,
\* a second AddMapping(m) succeeds too and leaves the chunk index and the
\* dev-extent indexes as the first call left them.
C18_AddMappingIdempotent ==
    \A m \in Mappings :
        m.Dev \in id2pv =>
            LET plan == PlanOf(m)
                l1 == ChunksAfter(logical2physical, plan)
                p1 == DevextsAfter(physical2logical, m.Dev, plan)
                again == addMappingPlan(id2pv, l1, p1, m, FALSE)
            IN  plan.err = "" =>
                    /\ again.err = ""
                    /\ ChunksAfter(l1, again) = l1
                    /\ DevextsAfter(p1, m.Dev, again) = p1

\* C19: in every state reached by successful AddMapping calls, for every
\* logical address inside a chunk and every physical address Resolve gives
\* for it, UnResolve gives back the logical address.
C19_ResolveUnResolve ==
    allOK =>
        \A c \in logical2physical : \A laddr \in c.LAddr..(c.LAddr + c.Size - 1) :
            \A p \in Resolve(logical2physical, laddr).paddrs :
                UnResolve(physical2logical, p) = laddr

\* The engine holds one chunk c with one stripe on m's device and the one
\* dev-extent that backs it, m overlaps c logically, and m and c agree on the
\* offset between logical and physical addresses.
MergesInto(m, c) ==
    /\ logical2physical = {c}
    /\ \E st \in c.PAddrs :
           /\ c.PAddrs = {st}
           /\ st.Dev = m.Dev
           /\ st.Addr - c.LAddr = m.PAddr - m.LAddr
           /\ physical2logical[m.Dev] =
                  {[PAddr |-> st.Addr, LAddr |-> c.LAddr, Size |-> c.Size,
                    SizeLocked |-> c.SizeLocked, Flags |-> c.Flags]}
    /\ chunkCmpRange(m, c) = 0

\* C20: in every state that holds one successfully added mapping, a second
\* mapping on the same device that overlaps it logically, agrees with it on
\* the offset and is added successfully leaves exactly one chunk, covering
\* [min laddr, max end) with the one stripe at the back-projected paddr, and
\* exactly one dev-extent, covering the matching physical range with the
\* chunk's laddr.
C20_OverlappingMappingsMerge ==
    \A m \in Mappings : \A c \in logical2physical :
        MergesInto(m, c) =>
            LET plan == PlanOf(m)
                beg == SetMin({m.LAddr, c.LAddr})
                end == SetMax({m.LAddr + m.Size, c.LAddr + c.Size})
                paddr == m.PAddr - (m.LAddr - beg)
                l1 == ChunksAfter(logical2physical, plan)
                p1 == DevextsAfter(physical2logical, m.Dev, plan)
            IN  plan.err = "" =>
                    /\ l1 = {[LAddr |-> beg, Size |-> end - beg,
                              PAddrs |-> {[Dev |-> m.Dev, Addr |-> paddr]},
                              SizeLocked |-> plan.newChunk.SizeLocked,
                              Flags |-> plan.newChunk.Flags]}
                    /\ p1[m.Dev] = {[PAddr |-> paddr, Size |-> end - beg, LAddr |-> beg,
                                     SizeLocked |-> plan.newExt.SizeLocked,
                                     Flags |-> plan.newExt.Flags]}

\* Two overlapping mappings have been merged into one chunk longer than
\* either, with one stripe and one dev-extent.
C20_Witness ==
    /\ allOK /\ ncalls = 2
    /\ \E c \in logical2physical :
           /\ logical2physical = {c}
           /\ c.Size > MaxSize
           /\ Cardinality(c.PAddrs) = 1
           /\ \A st \in c.PAddrs : Cardinality(physical2logical[st.Dev]) = 1

\* The chunk and the dev-extent that AddMapping(m) makes of m alone.
MappingChunk(m) ==
    [LAddr |-> m.LAddr, PAddrs |-> {[Dev |-> m.Dev, Addr |-> m.PAddr]}, Size |-> m.Size,
     SizeLocked |-> m.SizeLocked, Flags |-> m.Flags]
MappingDevext(m) ==
    [PAddr |-> m.PAddr, LAddr |-> m.LAddr, Size |-> m.Size,
     SizeLocked |-> m.SizeLocked, Flags |-> m.Flags]

\* [beg1, beg1+size1) and [beg2, beg2+size2) share a byte; one ends where the
\* other begins.
RangesOverlap(beg1, size1, beg2, size2) == beg1 < beg2 + size2 /\ beg2 < beg1 + size1
RangesTouch(beg1, size1, beg2, size2) == beg1 + size1 = beg2 \/ beg2 + size2 = beg1

\* m overlaps no chunk and no dev-extent of its device, and its logical range
\* touches a chunk or its physical range touches a dev-extent of its device.
OnlyTouches(m) ==
    /\ m.Dev \in id2pv
    /\ \A c \in logical2physical : ~RangesOverlap(m.LAddr, m.Size, c.LAddr, c.Size)
    /\ \A e \in physical2logical[m.Dev] : ~RangesOverlap(m.PAddr, m.Size, e.PAddr, e.Size)
    /\ \/ \E c \in logical2physical : RangesTouch(m.LAddr, m.Size, c.LAddr, c.Size)
       \/ \E e \in physical2logical[m.Dev] : RangesTouch(m.PAddr, m.Size, e.PAddr, e.Size)

\* C21: in every state, an AddMapping whose ranges only touch existing
\* mappings succeeds and merges nothing: every chunk and every dev-extent is
\* kept as it was, and m is added as a chunk and a dev-extent of its own.
C21_TouchingDoesNotMerge ==
    \A m \in Mappings :
        OnlyTouches(m) =>
            LET plan == PlanOf(m)
            IN  /\ plan.err = ""
                /\ ChunksAfter(logical2physical, plan) =
                       logical2physical \cup {MappingChunk(m)}
                /\ DevextsAfter(physical2logical, m.Dev, plan) =
                       [physical2logical EXCEPT
                           ![m.Dev] = physical2logical[m.Dev] \cup {MappingDevext(m)}]

\* Two mappings have been added, the second beginning, logically and
\* physically, where the first ends, and they are two chunks and two
\* dev-extents.
C21_Witness ==
    /\ allOK /\ ncalls = 2
    /\ \E c1, c2 \in logical2physical :
           /\ logical2physical = {c1, c2}
           /\ c1.LAddr + c1.Size = c2.LAddr
           /\ \E d \in id2pv : \E e1, e2 \in physical2logical[d] :
                  /\ e1.LAddr = c1.LAddr /\ e2.LAddr = c2.LAddr
                  /\ e1.PAddr + e1.Size = e2.PAddr

\* C22: in every state and for every mapping m, CouldAddMapping(m) writes
\* nothing to the chunk index or the dev-extent indexes, and it returns true
\* exactly when AddMapping(m) in that state returns no error.
C22_CouldAddMappingAgrees ==
    \A m \in Mappings :
        LET dry == addMappingPlan(id2pv, logical2physical, physical2logical, m, TRUE)
            plan == PlanOf(m)
        IN  /\ ~dry.write
            /\ (dry.err = "") <=>
                   (addMappingReturn(plan, ChunksAfter(logical2physical, plan),
                                     DevextsAfter(physical2logical, m.Dev, plan)) = "")

\* The last ReadAt read a range inside chunk c, which has two or more
\* stripes, and every stripe's part of the range is on its device.
ReadServedBy(c) ==
    /\ readGot # NotRead
    /\ c.LAddr <= readGot.laddr /\ readGot.laddr + readGot.len <= c.LAddr + c.Size
    /\ Cardinality(c.PAddrs) >= 2
    /\ \A st \in c.PAddrs :
           /\ st.Addr + (readGot.laddr - c.LAddr) >= 0
           /\ st.Addr + (readGot.laddr - c.LAddr) + readGot.len <= DevSize

\* The bytes of the range read on stripe st of chunk c.
StripeBytes(c, st) ==
    [i \in 1..readGot.len |->
        readGot.data[st.Dev][st.Addr + (readGot.laddr - c.LAddr) + i - 1]]

\* C23: a ReadAt over a range inside a chunk with two or more stripes, all
\* of them readable, returns the inconsistent-stripes error exactly when the
\* bytes of some two stripes differ over the range, and otherwise returns
\* the stripes' common bytes, all of the range, without error.
C23_ReadAtComparesStripes ==
    \A c \in logical2physical :
        ReadServedBy(c) =>
            LET differ == \E s1, s2 \in c.PAddrs : StripeBytes(c, s1) # StripeBytes(c, s2)
            IN  /\ (readGot.err = "InconsistentStripes") <=> differ
                /\ ~differ =>
                       /\ readGot.err = ""
                       /\ readGot.n = readGot.len
                       /\ \A st \in c.PAddrs : readGot.bytes = StripeBytes(c, st)

\* A read over a chunk with stripes on two devices has found them to differ.
C23_Witness ==
    /\ readGot # NotRead
    /\ readGot.err = "InconsistentStripes"
    /\ \E c \in logical2physical :
           /\ ReadServedBy(c)
           /\ \E s1, s2 \in c.PAddrs : s1.Dev # s2.Dev

\* C24: every step keeps the members of Roots and of Leafs and leaves each
\* item key announced once for each item of that key in the leaves of Leafs,
\* so no leaf's items are announced twice; and AddRoot(rootNode) puts
\* rootNode into Roots, adds to Leafs exactly the leaves not yet in Leafs
\* whose leafToRoots set contains rootNode, and calls cbAddedItem once for
\* each item of each leaf it adds.
C24_AddRootAddsAndAnnounces ==
    [][/\ Roots \subseteq Roots'
       /\ Leafs \subseteq Leafs'
       /\ \A k \in ItemKeys : cbAddedItem'[k] = ItemsWithKey(Leafs', k)
       /\ \A rootNode \in NodeAddrs :
              AddRoot(rootNode) =>
                  /\ rootNode \in Roots'
                  /\ Leafs' \ Leafs =
                         {leaf \in DOMAIN leafToRoots(rebuiltTree, graph) :
                             rootNode \in leafToRoots(rebuiltTree, graph)[leaf]} \ Leafs
                  /\ \A k \in ItemKeys :
                         cbAddedItem'[k] - cbAddedItem[k] = ItemsWithKey(Leafs' \ Leafs, k)
      ]_vars

\* The same root has been added twice, and the tree has the leaves under it.
C24_Witness ==
    /\ nAddRoot = 2
    /\ Cardinality(Roots) = 1
    /\ Cardinality(Leafs) >= 2
    /\ \E k \in ItemKeys : cbAddedItem[k] >= 2

\* Some AddRoot would bring leaf, not yet in Leafs, into Leafs.
CanAttach(leaf) ==
    /\ leaf \notin Leafs
    /\ \E rootNode \in NodeAddrs :
           leaf \in addRootLeafs(rebuiltTree, graph, Leafs, rootNode)

\* C25: LeafToRoots(leaf) for a level-0 node, attached or not, returns the
\* leafToRoots set of the leaf without the roots the tree has, and returns
\* the empty set exactly when no further AddRoot could attach the leaf.
C25_LeafToRootsMinusRoots ==
    [][\A leaf \in NodeAddrs :
          (LeafToRootsCall(leaf) /\ graph.Nodes[leaf].Level = 0) =>
              LET ltr == leafToRoots(rebuiltTree, graph)
                  cached == IF leaf \in DOMAIN ltr THEN ltr[leaf] ELSE {}
              IN  /\ ~ltrGot'.panic
                  /\ ltrGot'.ret = cached \ Roots
                  /\ (ltrGot'.ret = {}) <=> ~CanAttach(leaf)
      ]_vars

\* The leaves of an index that hold key k.
LeavesWithKey(index, k) ==
    {leaf \in index.Leafs : \E j \in DOMAIN NodeItems(leaf) : NodeItems(leaf)[j] = k}

\* Leaves a and b have owners at the same COW distance from the tree and
\* the same generation.
TiedLeaves(a, b) ==
    /\ COWDistance(rebuiltTree, graph.Nodes[a].Owner).dist
           = COWDistance(rebuiltTree, graph.Nodes[b].Owner).dist
    /\ graph.Nodes[a].Generation = graph.Nodes[b].Generation

\* C26: after any sequence of AddRoot and Items calls that has not
\* panicked, Items holds every key of the leaves it has indexed, all of
\* them attached, and holds it from the one leaf that is preferred to
\* every other indexed leaf with that key (smaller COW distance of the
\* owner, then larger generation), at the slot of the key in that leaf; so
\* the entry is a function of the set of indexed leaves and not of the
\* order of the calls.  Items has panicked only with two indexed leaves
\* that share a key at equal distance and equal generation.
C26_ItemsKeepsPreferredLeaf ==
    /\ incItems.Leafs \subseteq Leafs
    /\ ~incItems.panic =>
           /\ DOMAIN incItems.Items =
                  {k \in ItemKeys : LeavesWithKey(incItems, k) # {}}
           /\ \A k \in DOMAIN incItems.Items :
                  LET ptr == incItems.Items[k]
                  IN  /\ ptr.Node \in LeavesWithKey(incItems, k)
                      /\ NodeItems(ptr.Node)[ptr.Idx + 1] = k
                      /\ \A other \in LeavesWithKey(incItems, k) \ {ptr.Node} :
                             PreferredLeaf(ptr.Node, other)
    /\ incItems.panic =>
           \E k \in ItemKeys :
               \E a, b \in LeavesWithKey(incItems, k) : a # b /\ TiedLeaves(a, b)

\* Items was called, a second root was added, and the next Items call
\* replaced the entry of a key by that of a leaf at a higher address.
C26_Witness ==
    /\ ~incItems.panic
    /\ nAddRoot = 2
    /\ \E k \in DOMAIN incItems.Items :
           /\ Cardinality(LeavesWithKey(incItems, k)) >= 2
           /\ \E other \in LeavesWithKey(incItems, k) : other < incItems.Items[k].Node

(***************************************************************************)
(* Properties of the old-rebuilt forrest's index.                          *)
(***************************************************************************)
\* The searched range and the interval of a recorded error share a key.
OverlapsSearch(e, searcher) ==
    \E k \in IdxKeys : searcher[1] <= k /\ k <= searcher[2] /\ e.Min <= k /\ k <= e.Max

\* C27: TreeSearchAll returns every indexed item the searcher matches; its
\* error is non-nil exactly when no item matched or the interval of a
\* recorded bad-node error overlaps the searched range, and in the latter
\* case the matching items are returned all the same and the error carries
\* every overlapping interval error.
C27_SearchAllItemsAndErrors ==
    searchGot # NotSearched =>
        LET searcher == searchGot.searcher
            matching == {k \in idxItems : searcher[1] <= k /\ k <= searcher[2]}
            overlapping == {e \in idxErrors : OverlapsSearch(e, searcher)}
        IN  /\ searchGot.ret = matching
            /\ (searchGot.error # NoError) <=> (matching = {} \/ overlapping # {})
            /\ overlapping # {} => searchGot.error.errs = overlapping

\* A search matched an item and fell on one of two recorded bad-node
\* intervals.
C27_Witness ==
    /\ searchGot # NotSearched
    /\ searchGot.ret # {}
    /\ Cardinality(searchGot.error.errs) = 1
    /\ Cardinality(idxErrors) = 2

\* What following the parent UUIDs from tree comes to: "accept" when owner
\* is the id of the tree reached, "reject" when the chain ends or gen is
\* greater than ParentGen at a hop, "unresolved" when the parent cannot be
\* found (UUID tree unavailable, UUID item missing or undecodable, parent
\* tree unbuildable).
RECURSIVE ParentChain(_, _, _, _)
ParentChain(fs, tree, owner, gen) ==
    IF owner = tree THEN "accept"
    ELSE IF fs.ParentUUID[tree] = NoUUID \/ gen > fs.ParentGen[tree] THEN "reject"
    ELSE IF \/ fs.UUIDTreeRootErr
            \/ fs.UUIDTree[fs.ParentUUID[tree]] # "map"
            \/ fs.ParentUUID[tree] \in fs.RootErr THEN "unresolved"
    ELSE ParentChain(fs, fs.ParentUUID[tree], owner, gen)

\* C28: TreeCheckOwner returns nil exactly when owner is the id of the tree
\* or of an ancestor reached through the UUID tree with gen <= ParentGen at
\* every hop, or when the parent chain cannot be resolved and failOpen is
\* set; with failOpen unset every unresolvable case returns an error.
C28_CheckOwnerFailOpen ==
    checkGot.tree # NoTree =>
        LET chain == ParentChain(checkGot.fs, checkGot.tree, checkGot.owner, checkGot.gen)
        IN  (checkGot.err = "") <=>
                (chain = "accept" \/ (chain = "unresolved" /\ checkGot.failOpen))

(***************************************************************************)
(* Properties of the rebuilt forrest's loop detection.                     *)
(***************************************************************************)
\* The parent chain of the root items from treeID: the ids met, through the
\* first one met twice, or to the tree that has no parent.
RECURSIVE ParentChainOf(_, _, _)
ParentChainOf(roots, treeID, chain) ==
    IF treeID = NoParent THEN chain
    ELSE IF SeqHas(chain, treeID) THEN chain \o <<treeID>>
    ELSE ParentChainOf(roots, roots[treeID], chain \o <<treeID>>)

\* The parent chain of treeID runs into a cycle.
ChainLoops(roots, treeID) ==
    LET chain == ParentChainOf(roots, treeID, <<>>)
    IN  \E i \in 1..(Len(chain) - 1) : chain[i] = chain[Len(chain)]

\* C29: in strict mode RebuiltTree(id) for a tree whose parent chain runs
\* into a cycle returns no tree and the loop error whose path is the chain
\* from id through the first repeated id, whether or not the registry had
\* an entry for id from an earlier request; over the roots of the test the
\* paths are [306 305 304 303 305], [305 304 303 305], [304 303 305 304]
\* and [303 305 304 303].
C29_StrictLoopError ==
    (rfGot # <<>> /\ ~rfLax /\ ChainLoops(rfRoots, rfGot.treeID)) =>
        /\ rfGot.tree = NoRfTree
        /\ rfGot.err = ParentChainOf(rfRoots, rfGot.treeID, <<>>)
        /\ rfTrees[rfGot.treeID] # NoRfTree
        /\ rfRoots = mockRoots =>
               rfGot.err = CASE rfGot.treeID = 306 -> <<306, 305, 304, 303, 305>>
                             [] rfGot.treeID = 305 -> <<305, 304, 303, 305>>
                             [] rfGot.treeID = 304 -> <<304, 303, 305, 304>>
                             [] rfGot.treeID = 303 -> <<303, 305, 304, 303>>

\* Over the roots of the test, in strict mode, 306 was asked for first and
\* 303, which had its registry entry by then, was asked for later.
C29_Witness ==
    /\ rfRoots = mockRoots /\ ~rfLax
    /\ rfGot # <<>>
    /\ rfGot.treeID = 303 /\ rfGot.had
    /\ rfGot.err = <<303, 305, 304, 303>>
    /\ rfTrees[306] # NoRfTree /\ rfTrees[306].rootErr = <<306, 305, 304, 303, 305>>

\* C30: in lax mode RebuiltTree(id) for a tree whose parent chain runs into
\* a cycle succeeds with ancestorLoop set, on the first request and on
\* later ones, and ancestorRoot is the last tree of the chain before the
\* first repeated id; over the roots of the test that is 303 for 306, 303
\* for 305, 305 for 304 and 304 for 303.
C30_LaxAncestorRoot ==
    (rfGot # <<>> /\ rfLax /\ ChainLoops(rfRoots, rfGot.treeID)) =>
        LET chain == ParentChainOf(rfRoots, rfGot.treeID, <<>>)
        IN  /\ rfGot.err = <<>>
            /\ rfGot.tree # NoRfTree
            /\ rfGot.tree.ancestorLoop
            /\ rfGot.tree.ancestorRoot = chain[Len(chain) - 1]
            /\ rfRoots = mockRoots =>
                   rfGot.tree.ancestorRoot = CASE rfGot.treeID = 306 -> 303
                                               [] rfGot.treeID = 305 -> 303
                                               [] rfGot.treeID = 304 -> 305
                                               [] rfGot.treeID = 303 -> 304

\* Over the roots of the test, in lax mode, 306 was asked for first and
\* 304, which had its registry entry by then, was asked for later.
C30_Witness ==
    /\ rfRoots = mockRoots /\ rfLax
    /\ rfGot # <<>>
    /\ rfGot.treeID = 304 /\ rfGot.had
    /\ rfGot.tree # NoRfTree /\ rfGot.tree.ancestorLoop /\ rfGot.tree.ancestorRoot = 305
    /\ rfTrees[306] # NoRfTree /\ rfTrees[306].ancestorRoot = 303

(***************************************************************************)
(* Properties of the cache: Delete of an absent key, concurrent Acquires.  *)
(***************************************************************************)
\* C37: Delete(k) of a key the cache does not hold returns at once and leaves
\* the cache's mutex released, the cache otherwise as it was.
C37_DeleteAbsentReleasesMutex ==
    [][\A t \in Threads, k \in Keys :
          (byName[k] = NoEntry /\ DeleteCall(t, k)) =>
              /\ ~mu'
              /\ pc'[t].at = "idle"
              /\ UNCHANGED <<entries, unused, evictable, byName>>
      ]_vars

\* The handles held for key k, over all goroutines.
HandlesOf(k) ==
    {h \in UNION {{held[t][i] : i \in DOMAIN held[t]} : t \in Threads} : h.key = k}

\* Entry e is unused, evictable, or pinned and what the cache maps its key to.
EntryAccountedFor(e) ==
    \/ ListHas(unused, e)
    \/ ListHas(evictable, e)
    \/ /\ entries[e].refs > 0
       /\ entries[e].key # NoKey
       /\ byName[entries[e].key] = e

\* C38: when every Release(k) is made by a goroutine that holds a handle for
\* k, no Release panics, all holders of one key share one entry, and every
\* entry of the cache is unused, evictable, or pinned and reachable by its key.
C38_HoldersShareOneEntry ==
    [][/\ \A t \in Threads, i \in 1..MaxHeld :
            ReleaseCall(t, i) => pc'[t].at # "panicked"
       /\ \A k \in Keys : Cardinality(HandlesOf(k)') <= 1
       /\ \A e \in EntryIds : EntryAccountedFor(e)'
      ]_vars

\* Goroutine t is blocked in, or has just been woken from, waitForAvail.
InWaitForAvail(t) == pc[t].at = "waitForAvail"

\* C39 as stated: in an execution in which every goroutine gives up all its
\* handles again and again, every Acquire that blocks eventually returns.
C39_BlockedAcquireReturns ==
    (\A t \in Threads : []<>(held[t] = <<>>)) =>
        \A t \in Threads : InWaitForAvail(t) ~> (pc[t].at = "idle")

\* C39 as amended: a woken Acquire finds an entry available and returns, so
\* the panic of waitForAvail is unreachable; and in an execution in which
\* again and again no entry is pinned, every Acquire that blocks eventually
\* returns.
C39_WokenAcquireReturns ==
    /\ [][\A t \in Threads : AcquireResume(t) => pc'[t].at = "idle"]_vars
    /\ \A t \in Threads : (t \in avail) ~> (pc[t].at = "idle" /\ t \notin avail)
    /\ ([]<>(\A e \in EntryIds : entries[e].refs = 0)) =>
           \A t \in Threads : InWaitForAvail(t) ~> (pc[t].at = "idle")

\* A woken Acquire has returned with its handle while another is still blocked.
C39_Witness ==
    \E t, u \in Threads :
        /\ pc[t].at = "idle" /\ held[t] # <<>>
        /\ \E i \in DOMAIN held[t] : byName[held[t][i].key] = held[t][i].entry
        /\ pc[u].at = "waitForAvail" /\ u \notin avail
        /\ waiters = <<u>>
        /\ \A e \in EntryIds : entries[e].refs > 0

(***************************************************************************)
(* Properties of TreeCheckOwner's loop.                                    *)
(***************************************************************************)
\* C40: every TreeCheckOwner call returns, whatever the tree, the owner and
\* the generation, also when the chain of parent UUIDs runs in a cycle that
\* does not hold the owner and the generation exceeds no ParentGen on it.
C40_TreeCheckOwnerReturns ==
    (checkPc.at = "loop") ~> (checkPc.at = "returned")

(***************************************************************************)
(* Properties of the mapping engine: coverage.                             *)
(***************************************************************************)
\* The logical addresses a chunk of the bounds can cover.
CoveredAddrs == 0..(MaxAddr + 2 * MaxSize)

PinnedNodes == {n \in NodeAddrs : nodePins[n] > 0}
WalkRunning == walkPc.at \in {"range", "release", "returned"}

\* C36: a walk or search hands the indexed items over in ascending key order;
\* it holds at most one node, the node of the item handed over last; it reads
\* a node only when the next item lies in another node than the one held; and
\* when it has returned, at the end of the items, after the handler stopped it
\* or after cancellation, it holds no node and has released as often as it
\* acquired.  Having reached the end it has handed over every item.
C36_WalkHoldsOneNode ==
    [][/\ WalkRunning' =>
            /\ \A i, j \in DOMAIN walkPc'.visited :
                   i < j => walkPc'.visited[i] < walkPc'.visited[j]
            /\ PinnedNodes' = {walkPc'.node} \ {NoNode}
            /\ \A n \in NodeAddrs : nodePins'[n] <= 1
            /\ walkPc'.acquired =
                   walkPc'.released + (IF walkPc'.node = NoNode THEN 0 ELSE 1)
       /\ (walkPc.at = "range" /\ walkPc'.at # "panicked"
              /\ walkPc'.acquired > walkPc.acquired) =>
            walkPc'.node # walkPc.node
       /\ (walkPc.at = "range" /\ Len(walkPc'.visited) > Len(walkPc.visited)
              /\ walkPc'.acquired = walkPc.acquired) =>
            walkPc'.node = walkPc.node
       /\ walkPc'.at = "returned" =>
            /\ PinnedNodes' = {}
            /\ walkPc'.acquired = walkPc'.released
            /\ walkPc'.exit \in {"end", "stop", "cancel"}
            /\ walkPc'.exit = "end" =>
                   /\ {walkPc'.visited[i] : i \in DOMAIN walkPc'.visited} = walkPc'.items
                   /\ walkPc'.op = "treeWalk" => walkPc'.items = IndexedKeys(walkIndex')
      ]_vars

\* A walk over three items has come back to a node it had given up, and has
\* returned at the end of the items with nothing pinned.
C36_Witness ==
    /\ walkPc.at = "returned" /\ walkPc.exit = "end"
    /\ Len(walkPc.visited) = 3
    /\ walkIndex[walkPc.visited[1]] = walkIndex[walkPc.visited[3]]
    /\ walkIndex[walkPc.visited[1]] # walkIndex[walkPc.visited[2]]
    /\ walkPc.acquired = 3 /\ walkPc.released = 3

(***************************************************************************)
(* Properties of the rebuilt trees: cancellation.                          *)
(***************************************************************************)
\* The leaves AddRoot calls that run to their end attach for the roots.
LeafsOfRoots(roots) ==
    {leaf \in DOMAIN leafToRoots(rebuiltTree, graph) :
        leafToRoots(rebuiltTree, graph)[leaf] \cap roots # {}}

\* C33: whenever ctx is cancelled, during AddRoot or the indexing it starts,
\* the leaf-to-roots map memoized for the tree, if there is one, is the
\* complete one, and the tree's leafs are the leaves attached to its roots.
C33_CancelLeavesTreeConsistent ==
    /\ leafsCache.memo => leafsCache.map = leafToRoots(rebuiltTree, graph)
    /\ Leafs = LeafsOfRoots(Roots)

(***************************************************************************)
(* Properties of the rebuilt trees: readers beside AddRoot.                *)
(***************************************************************************)
\* C34: the leafs an Items call works from, read while an AddRoot call runs
\* in another goroutine, are the tree's leafs before that AddRoot or its
\* leafs after it; and what LeafToRoots returns is what it returns before
\* or after that AddRoot.
C34_ReadersSeeBeforeOrAfter ==
    /\ (itemsPc.at # "idle" /\ addRootPc.at # "idle") =>
           itemsPc.leafs \in {addRootPc.before, addRootPc.after}
    /\ (ltrGot # NotAsked /\ addRootPc.at # "idle") =>
           ltrGot \in {LeafToRoots(rebuiltTree, graph, {}, ltrGot.leaf),
                       LeafToRoots(rebuiltTree, graph, {addRootPc.rootNode}, ltrGot.leaf)}

(***************************************************************************)
(* Properties of the want callbacks.                                       *)
(***************************************************************************)
\* The keys a want for one item asks for: any offset of the object, or the
\* one offset.
WantedKeys(want) ==
    {k \in DOMAIN wantIndex :
        /\ k.ObjectID = want.ObjectID
        /\ want.OffsetType = "offsetExact" => k.Offset = want.OffsetLow}

\* The roots under which the leaves of the wanted potential items hang.
CandidateRoots(want) ==
    UNION {wantLeafRoots[wantIndex[k].Node] : k \in WantedKeys(want) \cap potentialKeys}

\* C32: a Want or WantOff whose tree cannot be obtained enqueues the tree id
\* for retry and records no augment; one whose item is in Items records
\* nothing; any other records, unless the same want is recorded already, the
\* union of LeafToRoots(leaf) over the matching PotentialItems entries,
\* which may be empty.  No want is recorded twice.
C32_WantRecordsCandidates ==
    [][Len(wantCalls') = Len(wantCalls) + 1 =>
        LET call == wantCalls'[Len(wantCalls')]
        IN  /\ ~wantPanic'
            /\ IF call.err
               THEN /\ call.treeID \in retryQueue'
                    /\ augmentQueue' = augmentQueue
               ELSE /\ retryQueue' = retryQueue
                    /\ IF WantedKeys(call.want) \cap itemsKeys # {}
                          \/ (\E i \in DOMAIN augmentQueue : augmentQueue[i].want = call.want)
                       THEN augmentQueue' = augmentQueue
                       ELSE augmentQueue' =
                                Append(augmentQueue, [want |-> call.want,
                                                      choices |-> CandidateRoots(call.want)])
            /\ \A i, j \in DOMAIN augmentQueue' :
                   augmentQueue'[i].want = augmentQueue'[j].want => i = j]_vars

\* A Want for an object with items at two offsets, in two leaves under
\* different roots, neither in the tree, was made twice and recorded once,
\* with both roots.
C32_Witness ==
    /\ Len(wantCalls) = MaxWantCalls
    /\ wantCalls[1] = wantCalls[2]
    /\ ~wantCalls[1].err
    /\ wantCalls[1].want.OffsetType = "offsetAny"
    /\ Len(augmentQueue) = 1
    /\ augmentQueue[1].choices = WantRootAddrs
    /\ \E k1, k2 \in WantedKeys(wantCalls[1].want) \cap potentialKeys :
           /\ wantIndex[k1].Node # wantIndex[k2].Node
           /\ wantLeafRoots[wantIndex[k1].Node] # wantLeafRoots[wantIndex[k2].Node]
    /\ retryQueue = {}

\* The offsets of [beg, end) that no run of Items covers, the gaps they
\* make, and the offsets of a run.
RunOffsets(k) == runBegOf(k)..(runEndOf(k) - 1)
Uncovered(beg, end) == (beg..(end - 1)) \ UNION {RunOffsets(k) : k \in itemsKeys}
GapsOf(beg, end) ==
    {g \in [Beg : beg..end, End : beg..end] :
        /\ g.Beg < g.End
        /\ (g.Beg..(g.End - 1)) \subseteq Uncovered(beg, end)
        /\ (g.Beg - 1) \notin Uncovered(beg, end)
        /\ g.End \notin Uncovered(beg, end)}

\* C31: after a range want over [beg, end), no augment request lies over
\* offsets that a run of Items covers; for every gap that Items leaves, every
\* item of PotentialItems whose run overlaps the gap has a request for that
\* gap with LeafToRoots of the item's leaf; and every offset of a gap that no
\* potential item covers lies in a request with no choices.
C31_RangeWantFillsGaps ==
    (wantCalls # <<>> /\ wantCalls[1].want.OffsetType = "offsetRange" /\ ~wantCalls[1].err) =>
        LET beg == wantCalls[1].want.OffsetLow
            end == wantCalls[1].want.OffsetHigh
            requests == {augmentQueue[i] : i \in DOMAIN augmentQueue}
        IN  /\ ~wantPanic
            /\ \A r \in requests :
                   (r.want.OffsetLow..(r.want.OffsetHigh - 1)) \subseteq Uncovered(beg, end)
            /\ \A g \in GapsOf(beg, end) : \A k \in potentialKeys :
                   RunOffsets(k) \cap (g.Beg..(g.End - 1)) # {} =>
                       \E r \in requests :
                           /\ r.want = wantOffsetRange(1, g.Beg, g.End)
                           /\ r.choices = wantLeafRoots[wantIndex[k].Node]
            /\ \A x \in Uncovered(beg, end) :
                   (\A k \in potentialKeys : x \notin RunOffsets(k)) =>
                       \E r \in requests :
                           /\ r.choices = {}
                           /\ x \in r.want.OffsetLow..(r.want.OffsetHigh - 1)

====
